---- MODULE Spec2Model ----
\* State-machine model of the CT Brain workflow backend
\* (agents, HTTP routes and their persisted entities).
EXTENDS Integers, Sequences, FiniteSets, TLC

VARIABLES
    now,        \* datetime.utcnow(), in model time units
    ops,        \* number of operations run so far
    scans,      \* table ct_scans:  id -> row
    scanners,   \* table scanners:  id -> row
    patients,   \* table patients:  id -> row
    users,      \* table users:     id -> row
    audit,      \* table audit_logs, in insertion order
    notifs,     \* table notifications, in insertion order
    req,        \* concurrently running requests and tasks (task-local state)
    tokens,     \* bearer tokens the server has issued and clients hold
    active_connections, \* SocketManager.active_connections: room -> list of sockets
    handlers,   \* websocket_endpoint coroutines: socket -> [pc, room]
    faqs,       \* table faqs:      id -> row
    last        \* the operation that ran last, its arguments and its outcome

vars == <<now, ops, scans, scanners, patients, users, audit, notifs, req, tokens,
          active_connections, handlers, faqs, last>>

-----------------------------------------------------------------------------
\* Time.  A datetime is a natural number of model units.  A quarter of an
\* hour is Min15 units; inside a quarter the unit index is
\* sec * MicroSteps + micro, where micro is the sub-second (microsecond) part
\* and sec the whole seconds (and minutes) past the quarter.

MicroSteps == 2
SecSteps == 2
DayHours == 3
Min15 == SecSteps * MicroSteps
Hour == 4 * Min15
Day == DayHours * Hour

\* timedelta(minutes=m), m a multiple of 15
Minutes(m) == (m \div 15) * Min15

Micro(t) == t % MicroSteps
DayStart(t) == (t \div Day) * Day

\* datetime.replace(hour=h, minute=m, second=0): the microsecond is kept
ReplaceHMS0(t, hm) == DayStart(t) + hm[1] * Hour + Minutes(hm[2]) + Micro(t)

NoTime == -1
NoScanner == 0

Min(a, b) == IF a <= b THEN a ELSE b

-----------------------------------------------------------------------------
\* Enumerations

ScanStatus == {"ordered", "validated", "scheduled", "in_prep", "in_progress",
               "completed", "reported", "cancelled"}
ScannerStatus == {"available", "in_use", "maintenance", "out_of_service"}
ScannerType == {"standard", "advanced", "dual_source"}
UrgencyLevel == {"immediate", "urgent", "routine"}
AppropriatenessScore == {"very_high", "high", "moderate", "low", "very_low"}

ScanIds == {1, 2}
ScannerIds == {1, 2}
PatientIds == {1, 2}
UserIds == {1, 2}

\* query results come back in an order the database chooses
Orders(S) == {o \in [1..Cardinality(S) -> S] : \A i, j \in DOMAIN o : i # j => o[i] # o[j]}

-----------------------------------------------------------------------------
\* Resource Agent: find_available_scanner

\* "HH:MM".split(":") mapped to int, then compared against utcnow()
IsWithinOperationalHours(scanner, t, duration_minutes) ==
    LET start_time == ReplaceHMS0(t, scanner.operational_hours_start)
        end_time == ReplaceHMS0(t, scanner.operational_hours_end)
        scan_end == t + Minutes(duration_minutes)
    IN  t >= start_time /\ scan_end <= end_time

\* rows of the query of find_available_scanner
FindQueryRows(scs, preferred_type) ==
    {id \in DOMAIN scs :
        /\ scs[id].status = "available"
        /\ scs[id].is_active
        /\ (preferred_type # "any" => scs[id].scanner_type = preferred_type)}

HasCapacity(sc) == sc.today_scans_scheduled < sc.daily_capacity

\* the scanners find_available_scanner may return (the first of them in the
\* order of the query result); NoScanner when there is none
FindCandidates(scs, t, duration_minutes, preferred_type) ==
    {id \in FindQueryRows(scs, preferred_type) :
        /\ HasCapacity(scs[id])
        /\ IsWithinOperationalHours(scs[id], t, duration_minutes)}

FirstIn(order, S) ==
    IF S = {} THEN NoScanner
    ELSE order[CHOOSE i \in DOMAIN order :
                 /\ order[i] \in S
                 /\ \A j \in DOMAIN order : order[j] \in S => i <= j]

find_available_scanner(scs, t, duration_minutes, preferred_type, order) ==
    FirstIn(order, FindCandidates(scs, t, duration_minutes, preferred_type))

-----------------------------------------------------------------------------
\* Clinical Agent: analyze_ct_indication.  A text is a sequence of words (the
\* text split at single spaces; an empty field leaves an empty word).

\* str.lower() on the words of the vocabulary
Lower(w) ==
    CASE w = "Stroke" -> "stroke"
      [] w = "TRAUMA" -> "trauma"
      [] OTHER -> w

LowerText(text) == [i \in DOMAIN text |-> Lower(text[i])]

\* the single-word indicators that occur inside a longer word of the vocabulary
InfixesOf(w) ==
    CASE w = "strokes" -> {"stroke"}
      [] w = "comatose" -> {"coma"}
      [] w = "polytrauma" -> {"trauma"}
      [] OTHER -> {}

\* w ends with / starts with the word k
EndsWith(w, k) == w = k \/ (w = "polytrauma" /\ k = "trauma")
StartsWith(w, k) == w = k \/ (w = "strokes" /\ k = "stroke") \/ (w = "comatose" /\ k = "coma")
Inside(w, k) == w = k \/ k \in InfixesOf(w)

\* Python's `phrase in text` for a phrase of one or more words
OccursAt(phrase, text, i) ==
    /\ i + Len(phrase) - 1 <= Len(text)
    /\ \A j \in 1..Len(phrase) :
          LET w == text[i + j - 1]
              k == phrase[j]
          IN  IF Len(phrase) = 1 THEN Inside(w, k)
              ELSE IF j = 1 THEN EndsWith(w, k)
              ELSE IF j = Len(phrase) THEN StartsWith(w, k)
              ELSE w = k

Occurs(phrase, text) == \E i \in 1..Len(text) : OccursAt(phrase, text, i)

immediate_indicators ==
    {<<"stroke">>, <<"hemorrhage">>, <<"bleeding">>, <<"seizure">>, <<"unconscious">>,
     <<"coma">>, <<"focal", "deficit">>, <<"mass", "effect">>, <<"herniation">>}

urgent_indicators ==
    {<<"trauma">>, <<"head", "injury">>, <<"confusion">>, <<"altered">>,
     <<"persistent", "headache">>, <<"vomiting">>, <<"papilledema">>}

determine_urgency_urgent_first(text) ==
    IF \E k \in urgent_indicators : Occurs(k, text) THEN "urgent"
    ELSE IF \E k \in immediate_indicators : Occurs(k, text) THEN "immediate"
    ELSE "routine"

determine_urgency(text) ==
    IF \E k \in immediate_indicators : Occurs(k, text) THEN "immediate"
    ELSE IF \E k \in urgent_indicators : Occurs(k, text) THEN "urgent"
    ELSE "routine"

\* criterion phrase split at whitespace, and its score
APPROPRIATENESS_CRITERIA ==
    << [words |-> {"head", "trauma,", "mild", "with", "loss", "of", "consciousness"}, score |-> 8],
       [words |-> {"head", "trauma,", "mild", "without", "loss", "of", "consciousness"}, score |-> 4],
       [words |-> {"head", "trauma,", "moderate", "to", "severe"}, score |-> 9],
       [words |-> {"acute", "stroke", "symptoms"}, score |-> 9],
       [words |-> {"altered", "mental", "status"}, score |-> 7],
       [words |-> {"headache", "with", "focal", "neurological", "findings"}, score |-> 8],
       [words |-> {"headache", "without", "focal", "findings"}, score |-> 2],
       [words |-> {"seizure", "with", "focal", "features"}, score |-> 8],
       [words |-> {"seizure", "without", "focal", "features"}, score |-> 3],
       [words |-> {"suspected", "brain", "tumor"}, score |-> 7],
       [words |-> {"dizziness/vertigo"}, score |-> 3],
       [words |-> {"syncope"}, score |-> 4],
       [words |-> {"cognitive", "decline"}, score |-> 6] >>

\* text.split(): the set of non-empty words
WordSet(text) == {text[i] : i \in DOMAIN text} \ {""}

Matched(text) ==
    {i \in DOMAIN APPROPRIATENESS_CRITERIA :
        Cardinality(APPROPRIATENESS_CRITERIA[i].words \cap WordSet(text))
            >= Min(2, Cardinality(APPROPRIATENESS_CRITERIA[i].words))}

BestMatchFirst(text) ==
    LET matched == Matched(text)
    IN  IF matched = {} THEN 0 ELSE CHOOSE i \in matched : \A j \in matched : i <= j

\* the first criterion, in table order, with the highest score (0 when none matched)
BestMatch(text) ==
    LET matched == Matched(text)
    IN  IF matched = {} THEN 0
        ELSE CHOOSE i \in matched :
                \A j \in matched :
                    \/ APPROPRIATENESS_CRITERIA[j].score < APPROPRIATENESS_CRITERIA[i].score
                    \/ (APPROPRIATENESS_CRITERIA[j].score = APPROPRIATENESS_CRITERIA[i].score /\ i <= j)

ScoreCategory(score) ==
    IF score >= 7 THEN "very_high"
    ELSE IF score >= 6 THEN "high"
    ELSE IF score >= 4 THEN "moderate"
    ELSE IF score >= 2 THEN "low"
    ELSE "very_low"

\* (category, score, matched criterion): the reason text is
\* "Score: <score>/9 - Matched criteria: <criterion>" or "... No specific criteria matched"
calculate_appropriateness(text) ==
    LET b == BestMatch(text)
        score == IF b = 0 THEN 0 ELSE APPROPRIATENESS_CRITERIA[b].score
    IN  [category |-> ScoreCategory(score), score |-> score, criterion |-> b]

\* f"{indication_lower} {history_lower} {symptoms_lower}"
CombinedText(ct_indication, clinical_history, symptoms) ==
    LET part(x) == IF x = <<>> THEN <<"">> ELSE LowerText(x)
    IN  part(ct_indication) \o part(clinical_history) \o part(symptoms)

analyze_ct_indication(ct_indication, clinical_history, symptoms) ==
    LET text == CombinedText(ct_indication, clinical_history, symptoms)
        a == calculate_appropriateness(text)
    IN  [urgency_level |-> determine_urgency(text),
         appropriateness_score |-> a.category,
         appropriateness_reason |-> <<a.score, a.criterion>>]

-----------------------------------------------------------------------------
\* Rows

NoReason == <<>>

\* a scan as the create-scan route stores it
NewScan(patient_id, ct_indication, clinical_history, symptoms) ==
    [patient_id |-> patient_id, ct_indication |-> ct_indication,
     clinical_history |-> clinical_history, symptoms |-> symptoms,
     urgency_level |-> "routine", appropriateness_score |-> "null",
     appropriateness_reason |-> NoReason, status |-> "ordered",
     scanner_id |-> NoScanner, scheduled_time |-> NoTime, started_time |-> NoTime,
     completed_time |-> NoTime, reported_time |-> NoTime, final_report |-> FALSE]

\* a scanner as the create-scanner route and the scanner update routes leave it
ScannerRow(code, st, active, ty, opens, closes, cap, sched) ==
    [scanner_code |-> code, status |-> st, is_active |-> active, scanner_type |-> ty,
     operational_hours_start |-> opens, operational_hours_end |-> closes,
     avg_scan_duration_minutes |-> 30, daily_capacity |-> cap,
     today_scans_completed |-> 0, today_scans_scheduled |-> sched]

NewPatient(mrn, ic_number) ==
    [mrn |-> mrn, ic_number |-> ic_number, status |-> "registered"]

NoRows == [r \in {} |-> 0]

\* Every operation leaves a record of itself: its name, its arguments, the
\* instant it ran at, how it ended and what it returned.
Ran(op, args, result, ret) == [op |-> op, args |-> args, at |-> now, result |-> result, ret |-> ret]

\* ClinicalAgent._generate_recommendations
generate_recommendations(urgency_level, appropriateness, text) ==
    (IF urgency_level = "immediate"
        THEN <<"Order scan as STAT - immediate priority", "Notify radiology immediately",
               "Consider pre-notification for potential thrombolysis",
               "Ensure IV access for potential contrast">>
     ELSE IF urgency_level = "urgent"
        THEN <<"Order scan as urgent - within 1 hour", "Notify radiology of urgent priority",
               "Prepare patient for scan">>
     ELSE <<"Order scan as routine", "Schedule based on scanner availability">>)
    \o (IF appropriateness \in {"low", "very_low"}
        THEN <<"Consider clinical consultation before proceeding",
               "CT may have limited diagnostic value for this indication",
               "Alternative imaging (MRI) may be more appropriate">>
        ELSE <<>>)
    \o (IF Occurs(<<"stroke">>, text)
        THEN <<"NIH Stroke Scale assessment required", "Determine last known well time",
               "Check eligibility for thrombolysis">>
        ELSE <<>>)
    \o (IF Occurs(<<"trauma">>, text)
        THEN <<"Assess for other injuries", "Consider C-spine clearance",
               "Monitor Glasgow Coma Scale">>
        ELSE <<>>)
    \o (IF Occurs(<<"seizure">>, text)
        THEN <<"Check anticonvulsant levels if applicable", "Consider EEG if indicated",
               "Assess for status epilepticus">>
        ELSE <<>>)

-----------------------------------------------------------------------------
\* Resource Agent: schedule_scan, get_optimal_schedule, _calculate_next_slot

schedule_scan_error_capacity(scs, scn, scan_id, scanner_id) ==
    IF scan_id \notin DOMAIN scs THEN "CT scan not found"
    ELSE IF scanner_id \notin DOMAIN scn THEN "Scanner not found"
    ELSE IF scn[scanner_id].status # "available" THEN "Scanner is not available"
    ELSE IF ~HasCapacity(scn[scanner_id]) THEN "Scanner is not available"
    ELSE "ok"

schedule_scan_error_nostatus(scs, scn, scan_id, scanner_id) ==
    IF scan_id \notin DOMAIN scs THEN "CT scan not found"
    ELSE IF scanner_id \notin DOMAIN scn THEN "Scanner not found"
    ELSE "ok"

\* the ValueError schedule_scan raises, "ok" when it raises none
schedule_scan_error(scs, scn, scan_id, scanner_id) ==
    IF scan_id \notin DOMAIN scs THEN "CT scan not found"
    ELSE IF scanner_id \notin DOMAIN scn THEN "Scanner not found"
    ELSE IF scn[scanner_id].status # "available" THEN "Scanner is not available"
    ELSE "ok"

\* the error classes of the agent layer, by message
ErrorKind(msg) ==
    CASE msg \in {"CT scan not found", "Scanner not found", "Patient not found"} -> "NotFound"
      [] msg = "Scanner is not available" -> "InvalidState"
      [] OTHER -> msg

\* scheduled_time defaults to utcnow() + 15 minutes
ScheduledTime(scheduled_time, t) ==
    IF scheduled_time = NoTime THEN t + Minutes(15) ELSE scheduled_time

ScansAfterSchedule(scs, scan_id, scanner_id, scheduled_time) ==
    [scs EXCEPT ![scan_id].scanner_id = scanner_id,
                ![scan_id].scheduled_time = scheduled_time,
                ![scan_id].status = "scheduled"]

IncrementScheduledTwice(scn, scanner_id, seen) ==
    [scn EXCEPT ![scanner_id].today_scans_scheduled = seen + 2]

\* scanner.today_scans_scheduled += 1 on the value the session has loaded
IncrementScheduled(scn, scanner_id, seen) ==
    [scn EXCEPT ![scanner_id].today_scans_scheduled = seen + 1]

ScheduleReturn(scn, scan_id, scanner_id, scheduled_time) ==
    [scan_id |-> scan_id, scanner_id |-> scanner_id,
     scanner_code |-> scn[scanner_id].scanner_code,
     scheduled_time |-> scheduled_time,
     estimated_duration_minutes |-> scn[scanner_id].avg_scan_duration_minutes,
     estimated_completion |-> scheduled_time + Minutes(scn[scanner_id].avg_scan_duration_minutes)]

ActiveStatuses == {"scheduled", "in_prep", "in_progress"}

\* the scans of the scanner scheduled on the day of t
TodaysScans(scs, scanner_id, t) ==
    {id \in DOMAIN scs :
        /\ scs[id].scanner_id = scanner_id
        /\ scs[id].scheduled_time # NoTime
        /\ scs[id].scheduled_time >= DayStart(t)
        /\ scs[id].scheduled_time <= DayStart(t) + Day - 1
        /\ scs[id].status \in ActiveStatuses}

calculate_next_slot(scs, scn, scanner_id, t) ==
    LET scheduled_scans == TodaysScans(scs, scanner_id, t)
    IN  IF scheduled_scans = {} THEN t + Minutes(15)
        ELSE LET last_scan == CHOOSE id \in scheduled_scans :
                     \A o \in scheduled_scans : scs[o].scheduled_time <= scs[id].scheduled_time
             IN  scs[last_scan].scheduled_time + Minutes(scn[scanner_id].avg_scan_duration_minutes)

\* the slot get_optimal_schedule suggests on one scanner
SuggestedSlot(scs, scn, scan_id, scanner_id, t) ==
    LET next_slot == calculate_next_slot(scs, scn, scanner_id, t)
    IN  IF scs[scan_id].urgency_level = "immediate" THEN t
        ELSE IF scs[scan_id].urgency_level = "urgent" THEN Min(next_slot, t + Minutes(30))
        ELSE next_slot

\* rows of the query of get_optimal_schedule with spare capacity, in query order
SuggestRows(scn, order) ==
    SelectSeq(order, LAMBDA id :
        /\ scn[id].status = "available"
        /\ scn[id].is_active
        /\ ~(scn[id].daily_capacity <= scn[id].today_scans_scheduled))

\* list.sort(key=scheduled_time) is stable: insertion sort of the suggestions
RECURSIVE SortByTime(_)
SortByTime(sugs) ==
    IF Len(sugs) <= 1 THEN sugs
    ELSE LET rest == SortByTime(SubSeq(sugs, 1, Len(sugs) - 1))
             x == sugs[Len(sugs)]
             k == Cardinality({i \in DOMAIN rest : rest[i].scheduled_time <= x.scheduled_time})
         IN  SubSeq(rest, 1, k) \o <<x>> \o SubSeq(rest, k + 1, Len(rest))

get_optimal_schedule(scs, scn, scan_id, t, num_suggestions, order) ==
    LET rows == SuggestRows(scn, order)
        suggestions == [i \in DOMAIN rows |->
            [scanner_id |-> rows[i],
             scheduled_time |-> SuggestedSlot(scs, scn, scan_id, rows[i], t)]]
        sorted == SortByTime(suggestions)
    IN  SubSeq(sorted, 1, Min(num_suggestions, Len(sorted)))

-----------------------------------------------------------------------------
\* Bounds of the exploration and the inputs the operations are tried with

MaxOps == 3
MaxCap == 2
MaxSocketOps == 4
MaxQuarter == 9
MaxNow == MaxQuarter * Min15

MissingId == CHOOSE n \in 3..9 : n \notin ScanIds \cup ScannerIds \cup PatientIds \cup UserIds
\* the actor "system" of _escalate: a user_id that is no id of the users table
SystemActor == 0

SampleTexts ==
    {<<"acute", "Stroke", "symptoms">>, <<"confusion">>, <<"syncope">>}

\* the clock moves on between operations
Tick ==
    /\ ops < MaxOps
    /\ \E d \in {1, MicroSteps, Min15, Hour} : now + d <= MaxNow /\ now' = now + d
    /\ ops' = ops + 1
    /\ last' = Ran("tick", <<>>, "ok", 0)
    /\ UNCHANGED <<scans, scanners, patients, users, audit, notifs, req, tokens, active_connections, handlers, faqs>>

\* ResourceAgent.find_available_scanner(scan_duration_minutes, preferred_type)
FindAvailableScanner ==
    /\ ops < MaxOps
    /\ \E dur \in {15, 30}, ty \in {"any", "standard", "advanced"}, order \in Orders(DOMAIN scanners) :
          last' = Ran("find_available_scanner", <<dur, ty>>, "ok",
                      find_available_scanner(scanners, now, dur, ty, order))
    /\ ops' = ops + 1
    /\ UNCHANGED <<now, scans, scanners, patients, users, audit, notifs, req, tokens, active_connections, handlers, faqs>>

\* ResourceAgent.schedule_scan(scan_id, scanner_id, scheduled_time)
ScheduleScan ==
    /\ ops < MaxOps
    /\ \E scan_id \in ScanIds \cup {MissingId}, scanner_id \in ScannerIds \cup {MissingId},
          scheduled_time \in {NoTime, now + Hour} :
          LET err == schedule_scan_error(scans, scanners, scan_id, scanner_id)
              at == ScheduledTime(scheduled_time, now)
          IN  IF err = "ok"
              THEN /\ scans' = ScansAfterSchedule(scans, scan_id, scanner_id, at)
                   /\ scanners' = IncrementScheduled(scanners, scanner_id,
                                      scanners[scanner_id].today_scans_scheduled)
                   /\ last' = Ran("schedule_scan", <<scan_id, scanner_id, scheduled_time>>, "ok",
                                  ScheduleReturn(scanners', scan_id, scanner_id, at))
              ELSE /\ UNCHANGED <<scans, scanners>>
                   /\ last' = Ran("schedule_scan", <<scan_id, scanner_id, scheduled_time>>, err, 0)
    /\ ops' = ops + 1
    /\ UNCHANGED <<now, patients, users, audit, notifs, req, tokens, active_connections, handlers, faqs>>

\* what `await db.refresh(scan)` does in update_scan_with_analysis: `db` is no
\* name of that scope
RefreshAfterCommit == "NameError"

\* scan.urgency_level, appropriateness_score, appropriateness_reason = ...
AnalysisFields(scs, scan_id, analysis_result) ==
    [scs EXCEPT ![scan_id].urgency_level = analysis_result.urgency_level,
                ![scan_id].appropriateness_score = analysis_result.appropriateness_score,
                ![scan_id].appropriateness_reason = analysis_result.appropriateness_reason]

ValidateAlways(scs, scan_id) == [scs EXCEPT ![scan_id].status = "validated"]

\* if scan.status.value == "ordered": scan.status = "validated"
ValidateIfOrdered(scs, scan_id) ==
    IF scs[scan_id].status = "ordered" THEN [scs EXCEPT ![scan_id].status = "validated"] ELSE scs

AnalysisSummary(scs, scan_id) ==
    [scan_id |-> scan_id, urgency_level |-> scs[scan_id].urgency_level,
     appropriateness_score |-> scs[scan_id].appropriateness_score,
     status |-> scs[scan_id].status]

\* ClinicalAgent.update_scan_with_analysis(scan_id, analysis_result)
ApplyAnalysis ==
    /\ ops < MaxOps
    /\ \E scan_id \in ScanIds \cup {MissingId}, text \in SampleTexts :
          LET analysis_result == analyze_ct_indication(text, <<>>, <<>>)
          IN  IF scan_id \notin DOMAIN scans
              THEN /\ UNCHANGED scans
                   /\ last' = Ran("update_scan_with_analysis", <<scan_id, analysis_result>>,
                                  "CT scan not found", 0)
              ELSE /\ scans' = ValidateIfOrdered(AnalysisFields(scans, scan_id, analysis_result), scan_id)
                   /\ last' = Ran("update_scan_with_analysis", <<scan_id, analysis_result>>,
                                  RefreshAfterCommit,
                                  IF RefreshAfterCommit = "ok"
                                  THEN AnalysisSummary(scans', scan_id) ELSE 0)
    /\ ops' = ops + 1
    /\ UNCHANGED <<now, scanners, patients, users, audit, notifs, req, tokens, active_connections, handlers, faqs>>

-----------------------------------------------------------------------------
\* Orchestration Agent

\* audit_logs.user_id references users.id; whether the database enforces the
\* reference is a property of the deployment
AuditInsertOk(user_id, usrs, enforced) == ~enforced \/ user_id \in DOMAIN usrs

\* OrchestrationAgent._log_audit: the row it builds
AuditEntry(user_id, action, entity_id, description) ==
    [user_id |-> user_id, action |-> action, entity_type |-> "scan",
     entity_id |-> entity_id, description |-> description]

log_audit_latest(log, entry) == <<entry>>

\* OrchestrationAgent._log_audit: one row added and committed
log_audit(log, entry) == Append(log, entry)

\* PatientAgent.send_notification: the row it leaves (created pending, then sent)
Notification(patient_id, category, title, related_entity_id, t) ==
    [patient_id |-> patient_id, notification_type |-> "in_app", category |-> category,
     title |-> title, related_entity_type |-> "scan", related_entity_id |-> related_entity_id,
     status |-> "sent", sent_at |-> t]

\* step 1 of process_new_scan_order: the analysis written onto the scan
ValidatedScans(scs, scan_id, clinical_analysis) ==
    [scs EXCEPT ![scan_id].urgency_level = clinical_analysis.urgency_level,
                ![scan_id].appropriateness_score = clinical_analysis.appropriateness_score,
                ![scan_id].status = "validated"]

\* schedule_scan is called without a scheduled_time
BookedTime(suggestions, t) == ScheduledTime(NoTime, t)

\* OrchestrationAgent.process_new_scan_order(scan_id, initiated_by)
ProcessNewScanOrder ==
    /\ ops < MaxOps
    /\ \E scan_id \in ScanIds \cup {MissingId}, initiated_by \in DOMAIN users,
          order \in Orders(DOMAIN scanners), enforced \in BOOLEAN :
          LET a1 == log_audit(audit, AuditEntry(initiated_by, "create", scan_id,
                                             <<"New CT scan order created">>))
          IN  IF scan_id \notin DOMAIN scans
              THEN /\ audit' = a1
                   /\ last' = Ran("process_new_scan_order", <<scan_id, initiated_by>>,
                                  "CT scan not found", 0)
                   /\ UNCHANGED <<scans, scanners, patients, notifs>>
              ELSE
                LET scan == scans[scan_id]
                    text == CombinedText(scan.ct_indication, scan.clinical_history, scan.symptoms)
                    clinical_analysis ==
                        analyze_ct_indication(scan.ct_indication, scan.clinical_history, scan.symptoms)
                    recommendations ==
                        generate_recommendations(clinical_analysis.urgency_level,
                                                 clinical_analysis.appropriateness_score, text)
                    s1 == ValidatedScans(scans, scan_id, clinical_analysis)
                    a2 == log_audit(a1, AuditEntry(initiated_by, "update", scan_id,
                              <<"Clinical validation completed", clinical_analysis.urgency_level>>))
                    immediate == clinical_analysis.urgency_level = "immediate"
                    scanner == find_available_scanner(scanners, now, 15, "any", order)
                    suggestions == get_optimal_schedule(s1, scanners, scan_id, now, 3, order)
                    target == IF immediate THEN scanner
                              ELSE IF suggestions # <<>> THEN suggestions[1].scanner_id
                              ELSE NoScanner
                    booked == target # NoScanner
                    at == IF immediate THEN ScheduledTime(NoTime, now) ELSE BookedTime(suggestions, now)
                    s2 == IF booked THEN ScansAfterSchedule(s1, scan_id, target, at) ELSE s1
                    a3 == IF immediate /\ ~booked
                          THEN log_audit(a2, AuditEntry(SystemActor, "escalation", scan_id,
                                   <<"Escalation", "No scanner available for immediate scan">>))
                          ELSE a2
                    patient_id == scan.patient_id
                    notified == patient_id \in DOMAIN patients
                    workflow ==
                        [current_step |-> "completed",
                         completed_steps |->
                            <<"clinical_validation">>
                            \o (IF booked THEN <<"scheduling">> ELSE <<>>)
                            \o (IF notified THEN <<"patient_notification">> ELSE <<>>),
                         pending_actions |->
                            recommendations
                            \o (IF ~immediate /\ ~booked
                                THEN <<"Awaiting scanner availability">> ELSE <<>>)]
                    escalated == immediate /\ ~booked
                IN  IF escalated /\ ~AuditInsertOk(SystemActor, users, enforced)
                    THEN \* the commit of the escalation row fails: the validated scan
                         \* and the two audit rows are committed already, nothing else is
                         /\ scans' = s1
                         /\ audit' = a2
                         /\ last' = Ran("process_new_scan_order", <<scan_id, initiated_by>>,
                                        "IntegrityError", 0)
                         /\ UNCHANGED <<scanners, patients, notifs>>
                    ELSE /\ scans' = s2
                         /\ scanners' = IF booked
                                        THEN IncrementScheduled(scanners, target,
                                                 scanners[target].today_scans_scheduled)
                                        ELSE scanners
                         /\ audit' = a3
                         /\ patients' = IF notified
                                        THEN [patients EXCEPT ![patient_id].status = "waiting"]
                                        ELSE patients
                         /\ notifs' = IF notified
                                      THEN Append(notifs, Notification(patient_id, "appointment",
                                                      "CT Scan Scheduled", scan_id, now))
                                      ELSE notifs
                         /\ last' = Ran("process_new_scan_order", <<scan_id, initiated_by>>, "ok",
                                        [scan_id |-> scan_id, workflow_state |-> workflow,
                                         clinical_analysis |-> clinical_analysis,
                                         suggestions |-> IF immediate THEN <<>> ELSE suggestions])
    /\ ops' = ops + 1
    /\ UNCHANGED <<now, users, req, tokens, active_connections, handlers, faqs>>

PatientStatusForLate(new_status) ==
    CASE new_status = "in_prep" -> "in_prep"
      [] new_status = "in_progress" -> "in_scan"
      [] new_status = "completed" -> "completed"
      [] new_status = "reported" -> "completed"
      [] OTHER -> "unchanged"

\* the patient status update_scan_status writes for the new scan status
PatientStatusFor(new_status) ==
    CASE new_status = "in_prep" -> "in_prep"
      [] new_status = "in_progress" -> "in_scan"
      [] new_status = "completed" -> "post_scan"
      [] new_status = "reported" -> "completed"
      [] OTHER -> "unchanged"

StampTimesEarly(row, new_status, t) ==
    CASE new_status \in {"in_prep", "in_progress"} -> [row EXCEPT !.started_time = t]
      [] new_status = "completed" -> [row EXCEPT !.completed_time = t]
      [] new_status = "reported" -> [row EXCEPT !.reported_time = t]
      [] OTHER -> row

\* the time markers stamped for the new status (agent and status-patch route alike)
StampTimes(row, new_status, t) ==
    CASE new_status = "in_progress" -> [row EXCEPT !.started_time = t]
      [] new_status = "completed" -> [row EXCEPT !.completed_time = t]
      [] new_status = "reported" -> [row EXCEPT !.reported_time = t]
      [] OTHER -> row

\* scan.status = new_status
SetStatus(row, new_status) == [row EXCEPT !.status = new_status]

\* OrchestrationAgent.update_scan_status(scan_id, new_status, updated_by)
OrchUpdateScanStatus ==
    /\ ops < MaxOps
    /\ \E scan_id \in ScanIds \cup {MissingId}, new_status \in ScanStatus, updated_by \in DOMAIN users :
          IF scan_id \notin DOMAIN scans
          THEN /\ last' = Ran("update_scan_status", <<scan_id, new_status, updated_by>>,
                              "CT scan not found", 0)
               /\ UNCHANGED <<scans, patients, audit, notifs>>
          ELSE
            LET scan == scans[scan_id]
                old_status == scan.status
                row == StampTimes(SetStatus(scan, new_status), new_status, now)
                patient_id == scan.patient_id
                touched == PatientStatusFor(new_status) # "unchanged" /\ patient_id \in DOMAIN patients
                result_ready == new_status = "reported" /\ touched /\ scan.final_report
            IN  /\ scans' = [scans EXCEPT ![scan_id] = row]
                /\ patients' = IF touched
                               THEN [patients EXCEPT ![patient_id].status = PatientStatusFor(new_status)]
                               ELSE patients
                /\ notifs' = IF result_ready
                             THEN Append(notifs, Notification(patient_id, "result_ready",
                                             "CT Scan Results Ready", scan_id, now))
                             ELSE notifs
                /\ audit' = log_audit(audit, AuditEntry(updated_by, "update", scan_id,
                                <<"Scan status changed", old_status, new_status>>))
                /\ last' = Ran("update_scan_status", <<scan_id, new_status, updated_by>>, "ok",
                               [scan_id |-> scan_id, old_status |-> old_status,
                                new_status |-> new_status, completed_at |-> row.completed_time])
    /\ ops' = ops + 1
    /\ UNCHANGED <<now, scanners, users, req, tokens, active_connections, handlers, faqs>>

-----------------------------------------------------------------------------
\* Bearer tokens and the authentication middleware

ServerSecret == "JWT_SECRET"

JWT_EXPIRATION_MINUTES == 1440

\* expires_delta = None (timedelta(0) is falsy as well)
NoDelta == 0

\* timegm(dt.utctimetuple()): a datetime as whole seconds, the fraction dropped
Seconds(t) == t \div MicroSteps

\* jwt.encode: the claims signed with the secret; a datetime "exp" is stored
\* as whole seconds
jwt_encode(claims, secret) ==
    [secret |-> secret,
     claims |-> IF "exp" \in DOMAIN claims THEN [claims EXCEPT !.exp = Seconds(@)] ELSE claims]

\* jwt.decode: JWTError on a wrong signature, ExpiredSignatureError once the
\* clock's whole seconds have passed "exp"
jwt_decode(token, secret, t) ==
    IF token.secret # secret THEN "JWTError"
    ELSE IF "exp" \in DOMAIN token.claims /\ token.claims.exp < Seconds(t)
    THEN "ExpiredSignatureError"
    ELSE "ok"

\* dict.update on a copy of data
Updated(data, key, value) ==
    [k \in DOMAIN data \cup {key} |-> IF k = key THEN value ELSE data[k]]

ExpireDefault(t, expires_delta) == t + Minutes(JWT_EXPIRATION_MINUTES)

\* lifetimes a caller passes: none, one second, a quarter of an hour
ExpiresDeltas == {NoDelta, MicroSteps, Min15}

\* the expiry moment create_access_token computes
Expire(t, expires_delta) ==
    IF expires_delta # NoDelta THEN t + expires_delta
    ELSE t + Minutes(JWT_EXPIRATION_MINUTES)

create_access_token(data, expires_delta, t) ==
    jwt_encode(Updated(data, "exp", Expire(t, expires_delta)), ServerSecret)

\* JWTError and its subclasses
JWTErrors == {"JWTError", "ExpiredSignatureError", "JWTClaimsError"}

\* except JWTError: an outcome of jwt.decode the handler does not catch
Uncaught(token, t) == jwt_decode(token, ServerSecret, t) \notin JWTErrors \cup {"ok"}

\* decode_access_token: the claims, or None (here <<>>) on a JWTError
decode_access_token(token, t) ==
    IF jwt_decode(token, ServerSecret, t) = "ok" THEN token.claims ELSE <<>>

create_token_payload(user_id, email, role) ==
    [sub |-> user_id, email |-> email, role |-> role, type |-> "access"]

\* bcrypt.hashpw and bcrypt.checkpw
get_password_hash(password) == <<"bcrypt", password>>

verify_password(plain_password, hashed_password) ==
    hashed_password = get_password_hash(plain_password)

\* credentials = None: the request carried no Authorization header
NoCredentials == <<>>

get_current_user_id_unverified(credentials, t) ==
    IF credentials = NoCredentials \/ "sub" \notin DOMAIN credentials.claims
    THEN [code |-> 401, user_id |-> 0]
    ELSE [code |-> 200, user_id |-> credentials.claims.sub]

\* get_current_user_id: 401 without usable credentials, else the subject
\* (a subject is a user id, a non-empty string)
get_current_user_id(credentials, t) ==
    IF credentials = NoCredentials THEN [code |-> 401, user_id |-> 0]
    ELSE LET payload == decode_access_token(credentials, t)
         IN  IF payload = <<>> THEN [code |-> 401, user_id |-> 0]
             ELSE IF "sub" \notin DOMAIN payload THEN [code |-> 401, user_id |-> 0]
             ELSE [code |-> 200, user_id |-> payload.sub]

\* the credentials requests arrive with: a token of user 1, one that expires
\* within the first second, one without a subject, and a forged one.  The
\* routes declare security = HTTPBearer(), which answers a request without
\* credentials before the handler runs.
RequestTokens ==
    {create_access_token(create_token_payload(1, "a@b.com", "nurse"), NoDelta, 0),
     create_access_token(create_token_payload(1, "a@b.com", "nurse"), 1, 0),
     create_access_token([type |-> "access"], NoDelta, 0),
     jwt_encode(Updated(create_token_payload(1, "a@b.com", "nurse"), "exp", MaxNow), "forged")}

-----------------------------------------------------------------------------
\* HTTP routes: create patient / user / scanner

Mrns == {"M-100", "M-200"}
IcNumbers == {"null", "900101"}
Usernames == {"alice", "bob"}
Emails == {"a@b.com", "c@d.com"}
ScannerCodes == {"CT-01", "CT-02"}

\* uuid4 primary key: an id no row of the table has
FreshId(tbl, pool) == CHOOSE id \in pool : id \notin DOMAIN tbl

\* select(...).where(column == value).scalar_one_or_none() finds a row
Stored(tbl, column, value) == \E id \in DOMAIN tbl : tbl[id][column] = value

\* the unique indexes of the tables
UniqueOk(tbl, column, value) == value = "null" \/ ~Stored(tbl, column, value)

Passwords == {"pw1"}

NewUser(username, email, password) ==
    [username |-> username, email |-> email, role |-> "nurse", is_active |-> TRUE,
     hashed_password |-> get_password_hash(password), last_login |-> NoTime]

UserConflictUsernameOnly(tbl, username, email) == Stored(tbl, "username", username)

\* the two duplicate checks of register and create_user
UserConflict(tbl, username, email) ==
    Stored(tbl, "username", username) \/ Stored(tbl, "email", email)

CreatePatient ==
    /\ ops < MaxOps
    /\ \E credentials \in RequestTokens, mrn \in Mrns, ic_number \in IcNumbers :
          LET caller == get_current_user_id(credentials, now)
              args == <<credentials, mrn, ic_number>>
          IN  IF caller.code # 200
              THEN /\ last' = Ran("create_patient", args, caller.code, 0)
                   /\ UNCHANGED patients
              ELSE IF Stored(patients, "mrn", mrn)
              THEN /\ last' = Ran("create_patient", args, 400, "MRN already exists")
                   /\ UNCHANGED patients
              ELSE IF ~UniqueOk(patients, "ic_number", ic_number)
              THEN /\ last' = Ran("create_patient", args, 500, "IntegrityError")
                   /\ UNCHANGED patients
              ELSE /\ patients' = patients @@
                        (FreshId(patients, PatientIds) :> NewPatient(mrn, ic_number))
                   /\ last' = Ran("create_patient", args, 201, FreshId(patients, PatientIds))
    /\ ops' = ops + 1
    /\ UNCHANGED <<now, scans, scanners, users, audit, notifs, req, tokens, active_connections, handlers, faqs>>

\* the body shared by auth.register and users.create_user
InsertUser(op, args, username, email, password, taken) ==
    IF UserConflict(users, username, email)
    THEN /\ last' = Ran(op, args, 400,
                        IF Stored(users, "username", username)
                        THEN "Username already " \o taken ELSE "Email already " \o taken)
         /\ UNCHANGED users
    ELSE IF ~UniqueOk(users, "username", username) \/ ~UniqueOk(users, "email", email)
    THEN /\ last' = Ran(op, args, 500, "IntegrityError")
         /\ UNCHANGED users
    ELSE /\ users' = users @@ (FreshId(users, UserIds) :> NewUser(username, email, password))
         /\ last' = Ran(op, args, 201, FreshId(users, UserIds))

Register ==
    /\ ops < MaxOps
    /\ \E username \in Usernames, email \in Emails, password \in Passwords :
          InsertUser("register", <<username, email>>, username, email, password, "registered")
    /\ ops' = ops + 1
    /\ UNCHANGED <<now, scans, scanners, patients, audit, notifs, req, tokens, active_connections, handlers, faqs>>

CreateUser ==
    /\ ops < MaxOps
    /\ \E credentials \in RequestTokens, username \in Usernames, email \in Emails,
          password \in Passwords :
          LET caller == get_current_user_id(credentials, now)
          IN  IF caller.code # 200
              THEN /\ last' = Ran("create_user", <<username, email>>, caller.code, 0)
                   /\ UNCHANGED users
              ELSE InsertUser("create_user", <<username, email>>, username, email, password, "exists")
    /\ ops' = ops + 1
    /\ UNCHANGED <<now, scans, scanners, patients, audit, notifs, req, tokens, active_connections, handlers, faqs>>

CreateScanner ==
    /\ ops < MaxOps
    /\ \E credentials \in RequestTokens, scanner_code \in ScannerCodes :
          LET caller == get_current_user_id(credentials, now)
              args == <<scanner_code>>
          IN  IF caller.code # 200
              THEN /\ last' = Ran("create_scanner", args, caller.code, 0)
                   /\ UNCHANGED scanners
              ELSE IF Stored(scanners, "scanner_code", scanner_code)
              THEN /\ last' = Ran("create_scanner", args, 400, "Scanner code already exists")
                   /\ UNCHANGED scanners
              ELSE /\ scanners' = scanners @@
                        (FreshId(scanners, ScannerIds) :>
                            ScannerRow(scanner_code, "available", TRUE, "standard",
                                       <<1, 0>>, <<2, 0>>, 40, 0))
                   /\ last' = Ran("create_scanner", args, 201, FreshId(scanners, ScannerIds))
    /\ ops' = ops + 1
    /\ UNCHANGED <<now, scans, patients, users, audit, notifs, req, tokens, active_connections, handlers, faqs>>

\* --- utils.auth on its own: issue a token, decode a token

ClaimMappings ==
    {create_token_payload(1, "a@b.com", "nurse"), create_token_payload(2, "c@d.com", "admin"),
     [type |-> "access"]}

IssueToken ==
    /\ ops < MaxOps
    /\ \E data \in ClaimMappings, expires_delta \in ExpiresDeltas :
          /\ tokens' = tokens \cup {create_access_token(data, expires_delta, now)}
          /\ last' = Ran("create_access_token", <<data, expires_delta>>, "ok",
                         create_access_token(data, expires_delta, now))
    /\ ops' = ops + 1
    /\ UNCHANGED <<now, scans, scanners, patients, users, audit, notifs, req,
                   active_connections, handlers, faqs>>

DecodeToken ==
    /\ ops < MaxOps
    /\ \E token \in tokens \cup {jwt_encode(t.claims, "forged") : t \in tokens} :
          last' = Ran("decode_access_token", <<token>>,
                     IF Uncaught(token, now) THEN "raised" ELSE "ok",
                     decode_access_token(token, now))
    /\ ops' = ops + 1
    /\ UNCHANGED <<now, scans, scanners, patients, users, audit, notifs, req, tokens,
                   active_connections, handlers, faqs>>

\* --- auth routes: login, refresh; users routes: activate, deactivate

LoginPasswords == Passwords \cup {"wrong"}

\* select(User).where(User.username == username).scalar_one_or_none()
UserNamed(tbl, username) == CHOOSE id \in DOMAIN tbl : tbl[id].username = username

login_status_any_account(tbl, username, password) ==
    IF \/ ~Stored(tbl, "username", username)
       \/ ~verify_password(password, tbl[UserNamed(tbl, username)].hashed_password)
    THEN 401
    ELSE 200

\* the checks of login, in the order the route makes them
login_status(tbl, username, password) ==
    IF \/ ~Stored(tbl, "username", username)
       \/ ~verify_password(password, tbl[UserNamed(tbl, username)].hashed_password)
    THEN 401
    ELSE IF ~tbl[UserNamed(tbl, username)].is_active THEN 403
    ELSE 200

\* the token login and refresh_token hand out for a user row
IssuedToken(tbl, id, t) ==
    create_access_token(create_token_payload(id, tbl[id].email, tbl[id].role), NoDelta, t)

\* credentials clients present: tokens they were issued, a forged one, and
\* one for a subject that has no row in users
BearerTokens ==
    tokens \cup RequestTokens
           \cup {create_access_token(create_token_payload(MissingId, "x@y.com", "nurse"), NoDelta, 0)}

\* POST /auth/login
Login ==
    /\ ops < MaxOps
    /\ \E username \in Usernames, password \in LoginPasswords :
          LET code == login_status(users, username, password)
              id == UserNamed(users, username)
              args == <<username, password>>
          IN  IF code # 200
              THEN /\ last' = Ran("login", args, code, 0)
                   /\ UNCHANGED <<users, tokens>>
              ELSE /\ users' = [users EXCEPT ![id].last_login = now]
                   /\ tokens' = tokens \cup {IssuedToken(users, id, now)}
                   /\ last' = Ran("login", args, 200, id)
    /\ ops' = ops + 1
    /\ UNCHANGED <<now, scans, scanners, patients, audit, notifs, req, active_connections,
                   handlers, faqs>>

\* POST /auth/refresh
RefreshToken ==
    /\ ops < MaxOps
    /\ \E credentials \in BearerTokens :
          LET caller == get_current_user_id(credentials, now)
              args == <<credentials>>
          IN  IF caller.code # 200
              THEN /\ last' = Ran("refresh", args, caller.code, 0)
                   /\ UNCHANGED tokens
              ELSE IF caller.user_id \notin DOMAIN users \/ ~users[caller.user_id].is_active
              THEN /\ last' = Ran("refresh", args, 401, 0)
                   /\ UNCHANGED tokens
              ELSE /\ tokens' = tokens \cup {IssuedToken(users, caller.user_id, now)}
                   /\ last' = Ran("refresh", args, 200, caller.user_id)
    /\ ops' = ops + 1
    /\ UNCHANGED <<now, scans, scanners, patients, users, audit, notifs, req,
                   active_connections, handlers, faqs>>

\* the body shared by activate_user and deactivate_user
SetActive(op, value) ==
    \E credentials \in BearerTokens, user_id \in UserIds \cup {MissingId} :
        LET caller == get_current_user_id(credentials, now)
            args == <<credentials, user_id>>
        IN  IF caller.code # 200
            THEN /\ last' = Ran(op, args, caller.code, 0)
                 /\ UNCHANGED users
            ELSE IF user_id \notin DOMAIN users
            THEN /\ last' = Ran(op, args, 404, 0)
                 /\ UNCHANGED users
            ELSE /\ users' = [users EXCEPT ![user_id].is_active = value]
                 /\ last' = Ran(op, args, 200, user_id)

\* PATCH /users/{user_id}/activate
ActivateUser ==
    /\ ops < MaxOps
    /\ SetActive("activate_user", TRUE)
    /\ ops' = ops + 1
    /\ UNCHANGED <<now, scans, scanners, patients, audit, notifs, req, tokens,
                   active_connections, handlers, faqs>>

\* PATCH /users/{user_id}/deactivate
DeactivateUser ==
    /\ ops < MaxOps
    /\ SetActive("deactivate_user", FALSE)
    /\ ops' = ops + 1
    /\ UNCHANGED <<now, scans, scanners, patients, audit, notifs, req, tokens,
                   active_connections, handlers, faqs>>

\* --- POST /scans/ and DELETE /patients/{patient_id}

NoPatient == 0

ScanIndications == {<<"confusion">>}

\* uuid.uuid4().hex[:4]: four lower-case hex digits, whichever the generator yields
HexPrefixes == {<<"a", "1", "f", "0">>, <<"0", "b", "2", "c">>}

\* str.upper() on a hex digit
Upper(c) ==
    CASE c = "a" -> "A" [] c = "b" -> "B" [] c = "c" -> "C"
      [] c = "d" -> "D" [] c = "e" -> "E" [] c = "f" -> "F"
      [] OTHER -> c

\* generate_scan_number: "CT-" strftime("%Y%m%d%H%M%S") "-" HEX; the timestamp
\* is the clock cut to whole seconds
generate_scan_number(t, hex) ==
    [prefix |-> "CT", timestamp |-> Seconds(t), suffix |-> [i \in DOMAIN hex |-> Upper(hex[i])]]

\* the row create_scan adds: the order with its scan number
Numbered(row, scan_number) == row @@ ("scan_number" :> scan_number)

ScanNumberFreeAlways(scan_number) == TRUE

\* ct_scans.scan_number is unique
ScanNumberFree(scan_number) ==
    \A id \in DOMAIN scans : scans[id].scan_number # scan_number

\* the foreign keys of ct_scans a new row has to satisfy
ScanInsertOk(patient_id, ordering_physician_id) ==
    patient_id \in DOMAIN patients /\ ordering_physician_id \in DOMAIN users

CreateScan ==
    /\ ops < MaxOps
    /\ DOMAIN scans # ScanIds
    /\ \E credentials \in BearerTokens, patient_id \in PatientIds \cup {MissingId},
          ct_indication \in ScanIndications, hex \in HexPrefixes :
          LET caller == get_current_user_id(credentials, now)
              args == <<credentials, patient_id, ct_indication>>
              scan_number == generate_scan_number(now, hex)
          IN  IF caller.code # 200
              THEN /\ last' = Ran("create_scan", args, caller.code, 0)
                   /\ UNCHANGED scans
              ELSE IF patient_id \notin DOMAIN patients
              THEN /\ last' = Ran("create_scan", args, 404, 0)
                   /\ UNCHANGED scans
              ELSE IF ~ScanInsertOk(patient_id, caller.user_id) \/ ~ScanNumberFree(scan_number)
              THEN /\ last' = Ran("create_scan", args, 500, 0)
                   /\ UNCHANGED scans
              ELSE /\ scans' = scans @@
                        (FreshId(scans, ScanIds) :>
                            Numbered(NewScan(patient_id, ct_indication, <<>>, <<>>), scan_number))
                   /\ last' = Ran("create_scan", args, 201,
                                  [id |-> FreshId(scans, ScanIds),
                                   ordering_physician_id |-> caller.user_id])
    /\ ops' = ops + 1
    /\ UNCHANGED <<now, scanners, patients, users, audit, notifs, req, tokens,
                   active_connections, handlers, faqs>>

\* the unit of work of db.delete(patient): rows that reference the patient
\* get patient_id = NULL, which ct_scans.patient_id (nullable=False) refuses
PatientDeleteOk(patient_id) == \A id \in DOMAIN scans : scans[id].patient_id # patient_id

Without(tbl, id) == [k \in DOMAIN tbl \ {id} |-> tbl[k]]

Orphaned(log, patient_id) ==
    [i \in DOMAIN log |->
        IF log[i].patient_id = patient_id THEN [log[i] EXCEPT !.patient_id = NoPatient]
        ELSE log[i]]

DeletePatient ==
    /\ ops < MaxOps
    /\ \E credentials \in BearerTokens, patient_id \in PatientIds \cup {MissingId} :
          LET caller == get_current_user_id(credentials, now)
              args == <<credentials, patient_id>>
          IN  IF caller.code # 200
              THEN /\ last' = Ran("delete_patient", args, caller.code, 0)
                   /\ UNCHANGED <<patients, notifs>>
              ELSE IF patient_id \notin DOMAIN patients
              THEN /\ last' = Ran("delete_patient", args, 404, 0)
                   /\ UNCHANGED <<patients, notifs>>
              ELSE IF ~PatientDeleteOk(patient_id)
              THEN /\ last' = Ran("delete_patient", args, 500, 0)
                   /\ UNCHANGED <<patients, notifs>>
              ELSE /\ patients' = Without(patients, patient_id)
                   /\ notifs' = Orphaned(notifs, patient_id)
                   /\ last' = Ran("delete_patient", args, 204, 0)
    /\ ops' = ops + 1
    /\ UNCHANGED <<now, scans, scanners, users, audit, req, tokens,
                   active_connections, handlers, faqs>>

\* --- PUT /patients/{patient_id}

\* a patient row with the columns PatientUpdate can set and the timestamps
PatientRecord(mrn, ic_number, phone, status, anxiety_level, consent_given, t) ==
    [mrn |-> mrn, ic_number |-> ic_number, status |-> status, phone |-> phone,
     anxiety_level |-> anxiety_level, consent_given |-> consent_given,
     consent_timestamp |-> IF consent_given THEN t ELSE NoTime,
     registered_at |-> t, updated_at |-> t]

\* patient_data.model_dump(exclude_unset=True): the fields the request carries
UpdateBodies ==
    {[phone |-> "012-555"], [status |-> "waiting"], [anxiety_level |-> "severe"],
     [phone |-> "012-555", status |-> "in_prep"],
     [consent_given |-> TRUE, consent_timestamp |-> MaxNow],
     [f \in {} |-> 0]}

\* model_dump() without exclude_unset: every field of the schema, unset ones None
SetEveryField(row, update_data, t) ==
    [f \in DOMAIN row |->
        IF f \in DOMAIN update_data THEN update_data[f]
        ELSE IF f = "updated_at" THEN t
        ELSE IF f \in {"phone", "status", "anxiety_level"} THEN "null"
        ELSE row[f]]

\* the setattr loop of update_patient and the updated_at stamp after it
SetFields(row, update_data, t) ==
    [f \in DOMAIN row |->
        IF f \in DOMAIN update_data THEN update_data[f]
        ELSE IF f = "updated_at" THEN t
        ELSE row[f]]

UpdatePatient ==
    /\ ops < MaxOps
    /\ \E credentials \in RequestTokens, patient_id \in PatientIds \cup {MissingId},
          update_data \in UpdateBodies :
          LET caller == get_current_user_id(credentials, now)
              args == <<credentials, patient_id, update_data>>
          IN  IF caller.code # 200
              THEN /\ last' = Ran("update_patient", args, caller.code, 0)
                   /\ UNCHANGED patients
              ELSE IF patient_id \notin DOMAIN patients
              THEN /\ last' = Ran("update_patient", args, 404, 0)
                   /\ UNCHANGED patients
              ELSE /\ patients' = [patients EXCEPT ![patient_id] = SetFields(@, update_data, now)]
                   /\ last' = Ran("update_patient", args, 200, patient_id)
    /\ ops' = ops + 1
    /\ UNCHANGED <<now, scans, scanners, users, audit, notifs, req, tokens,
                   active_connections, handlers, faqs>>

\* --- the FAQ routes

FaqIds == {1, 2}
FaqCategories == {"procedure", "risks"}

\* a row of faqs with the given usage counters
FaqRow(category, view_count, helpful_count, not_helpful_count, t) ==
    [category |-> category, is_active |-> TRUE, view_count |-> view_count,
     helpful_count |-> helpful_count, not_helpful_count |-> not_helpful_count,
     created_at |-> t, updated_at |-> t]

\* FAQUpdate bodies, as model_dump(exclude_unset=True) hands them over
FaqBodies == {[is_active |-> FALSE], [category |-> "risks"], [f \in {} |-> 0]}

\* onupdate=datetime.utcnow: a row that is written gets a new updated_at
Written(old, new, t) == IF new = old THEN old ELSE [new EXCEPT !.updated_at = t]

RecordFeedbackAsHelpful(row, helpful) == [row EXCEPT !.helpful_count = @ + 1]

\* the counter provide_feedback raises
RecordFeedback(row, helpful) ==
    IF helpful THEN [row EXCEPT !.helpful_count = @ + 1]
    ELSE [row EXCEPT !.not_helpful_count = @ + 1]

\* POST /faq/
CreateFaq ==
    /\ ops < MaxOps
    /\ DOMAIN faqs # FaqIds
    /\ \E credentials \in RequestTokens, category \in FaqCategories :
          LET caller == get_current_user_id(credentials, now)
              args == <<credentials, category>>
          IN  IF caller.code # 200
              THEN /\ last' = Ran("create_faq", args, caller.code, 0)
                   /\ UNCHANGED faqs
              ELSE /\ faqs' = faqs @@ (FreshId(faqs, FaqIds) :> FaqRow(category, 0, 0, 0, now))
                   /\ last' = Ran("create_faq", args, 201, FreshId(faqs, FaqIds))
    /\ ops' = ops + 1
    /\ UNCHANGED <<now, scans, scanners, patients, users, audit, notifs, req, tokens,
                   active_connections, handlers>>

\* GET /faq/{faq_id}
GetFaq ==
    /\ ops < MaxOps
    /\ \E credentials \in RequestTokens, faq_id \in FaqIds \cup {MissingId} :
          LET caller == get_current_user_id(credentials, now)
              args == <<credentials, faq_id>>
          IN  IF caller.code # 200
              THEN /\ last' = Ran("get_faq", args, caller.code, 0)
                   /\ UNCHANGED faqs
              ELSE IF faq_id \notin DOMAIN faqs
              THEN /\ last' = Ran("get_faq", args, 404, 0)
                   /\ UNCHANGED faqs
              ELSE /\ faqs' = [faqs EXCEPT ![faq_id] =
                                   Written(@, [@ EXCEPT !.view_count = @ + 1], now)]
                   /\ last' = Ran("get_faq", args, 200, faq_id)
    /\ ops' = ops + 1
    /\ UNCHANGED <<now, scans, scanners, patients, users, audit, notifs, req, tokens,
                   active_connections, handlers>>

\* PUT /faq/{faq_id}
UpdateFaq ==
    /\ ops < MaxOps
    /\ \E credentials \in RequestTokens, faq_id \in FaqIds \cup {MissingId},
          update_data \in FaqBodies :
          LET caller == get_current_user_id(credentials, now)
              args == <<credentials, faq_id, update_data>>
          IN  IF caller.code # 200
              THEN /\ last' = Ran("update_faq", args, caller.code, 0)
                   /\ UNCHANGED faqs
              ELSE IF faq_id \notin DOMAIN faqs
              THEN /\ last' = Ran("update_faq", args, 404, 0)
                   /\ UNCHANGED faqs
              ELSE /\ faqs' = [faqs EXCEPT ![faq_id] =
                                   Written(@, [f \in DOMAIN @ |->
                                                  IF f \in DOMAIN update_data
                                                  THEN update_data[f] ELSE @[f]], now)]
                   /\ last' = Ran("update_faq", args, 200, faq_id)
    /\ ops' = ops + 1
    /\ UNCHANGED <<now, scans, scanners, patients, users, audit, notifs, req, tokens,
                   active_connections, handlers>>

\* POST /faq/{faq_id}/feedback: no credentials asked for
ProvideFeedback ==
    /\ ops < MaxOps
    /\ \E faq_id \in FaqIds \cup {MissingId}, helpful \in BOOLEAN :
          IF faq_id \notin DOMAIN faqs
          THEN /\ last' = Ran("provide_feedback", <<faq_id, helpful>>, 404, 0)
               /\ UNCHANGED faqs
          ELSE /\ faqs' = [faqs EXCEPT ![faq_id] = Written(@, RecordFeedback(@, helpful), now)]
               /\ last' = Ran("provide_feedback", <<faq_id, helpful>>, 200, 0)
    /\ ops' = ops + 1
    /\ UNCHANGED <<now, scans, scanners, patients, users, audit, notifs, req, tokens,
                   active_connections, handlers>>

\* DELETE /faq/{faq_id}
DeleteFaq ==
    /\ ops < MaxOps
    /\ \E credentials \in RequestTokens, faq_id \in FaqIds \cup {MissingId} :
          LET caller == get_current_user_id(credentials, now)
              args == <<credentials, faq_id>>
          IN  IF caller.code # 200
              THEN /\ last' = Ran("delete_faq", args, caller.code, 0)
                   /\ UNCHANGED faqs
              ELSE IF faq_id \notin DOMAIN faqs
              THEN /\ last' = Ran("delete_faq", args, 404, 0)
                   /\ UNCHANGED faqs
              ELSE /\ faqs' = Without(faqs, faq_id)
                   /\ last' = Ran("delete_faq", args, 204, 0)
    /\ ops' = ops + 1
    /\ UNCHANGED <<now, scans, scanners, patients, users, audit, notifs, req, tokens,
                   active_connections, handlers>>

\* PATCH /scans/{scan_id}/status
PatchScanStatus ==
    /\ ops < MaxOps
    /\ \E credentials \in RequestTokens, scan_id \in ScanIds \cup {MissingId},
          new_status \in ScanStatus :
          LET caller == get_current_user_id(credentials, now)
              args == <<scan_id, new_status>>
          IN  IF caller.code # 200
              THEN /\ last' = Ran("patch_scan_status", args, caller.code, 0)
                   /\ UNCHANGED scans
              ELSE IF scan_id \notin DOMAIN scans
              THEN /\ last' = Ran("patch_scan_status", args, 404, "CT scan not found")
                   /\ UNCHANGED scans
              ELSE /\ scans' = [scans EXCEPT ![scan_id] =
                                    StampTimes(SetStatus(@, new_status), new_status, now)]
                   /\ last' = Ran("patch_scan_status", args, 200, scans'[scan_id])
    /\ ops' = ops + 1
    /\ UNCHANGED <<now, scanners, patients, users, audit, notifs, req, tokens, active_connections, handlers, faqs>>

-----------------------------------------------------------------------------
\* Two process_new_scan_order calls running as concurrent tasks, each with a
\* session of its own; a task is suspended at every await on the session.

Tasks == {1, 2}

Task(pc, scan_id) ==
    [pc |-> pc, scan_id |-> scan_id, urgency |-> "routine", found |-> NoScanner,
     seen |-> 0, result |-> "running"]

\* lines 62-103: audit entry, load, analysis, status validated, audit entry
TaskValidate(k) ==
    /\ req[k].pc = "start"
    /\ LET scan_id == req[k].scan_id
           scan == scans[scan_id]
           clinical_analysis ==
               analyze_ct_indication(scan.ct_indication, scan.clinical_history, scan.symptoms)
       IN  /\ scans' = ValidatedScans(scans, scan_id, clinical_analysis)
           /\ audit' = log_audit(
                    log_audit(audit, AuditEntry(1, "create", scan_id, <<"New CT scan order created">>)),
                    AuditEntry(1, "update", scan_id,
                        <<"Clinical validation completed", clinical_analysis.urgency_level>>))
           /\ req' = [req EXCEPT ![k].pc = "validated",
                                 ![k].urgency = clinical_analysis.urgency_level]
    /\ last' = Ran("task_validate", <<k>>, "ok", 0)
    /\ UNCHANGED <<now, ops, scanners, patients, users, notifs, tokens, active_connections, handlers, faqs>>

\* lines 108-112 and 125-128: the capacity check; the scanner rows it reads
\* stay loaded in the task's session
TaskLookup(k) ==
    /\ req[k].pc = "validated"
    /\ \E order \in Orders(DOMAIN scanners), enforced \in BOOLEAN :
          LET suggestions == get_optimal_schedule(scans, scanners, req[k].scan_id, now, 3, order)
              target == IF req[k].urgency = "immediate"
                        THEN find_available_scanner(scanners, now, 15, "any", order)
                        ELSE IF suggestions # <<>> THEN suggestions[1].scanner_id
                        ELSE NoScanner
              escalated == req[k].urgency = "immediate" /\ target = NoScanner
          IN IF escalated /\ ~AuditInsertOk(SystemActor, users, enforced)
             THEN /\ req' = [req EXCEPT ![k].pc = "done", ![k].result = "IntegrityError"]
                  /\ UNCHANGED audit
             ELSE /\ req' = [req EXCEPT
                        ![k].pc = IF target = NoScanner THEN "notify" ELSE "found",
                        ![k].found = target,
                        ![k].seen = IF target = NoScanner THEN 0
                                    ELSE scanners[target].today_scans_scheduled,
                        ![k].result = IF target = NoScanner THEN "no scanner" ELSE @]
                  /\ audit' = IF escalated
                              THEN log_audit(audit, AuditEntry(SystemActor, "escalation", req[k].scan_id,
                                       <<"Escalation", "No scanner available for immediate scan">>))
                              ELSE audit
    /\ last' = Ran("task_lookup", <<k>>, "ok", 0)
    /\ UNCHANGED <<now, ops, scans, scanners, patients, users, notifs, tokens, active_connections, handlers, faqs>>

\* lines 115-118 and 132-135: schedule_scan on the scanner found; the counter
\* is written from the value the session loaded
TaskSchedule(k) ==
    /\ req[k].pc = "found"
    /\ LET scan_id == req[k].scan_id
           scanner_id == req[k].found
           err == schedule_scan_error(scans, scanners, scan_id, scanner_id)
       IN  IF err = "ok"
           THEN /\ scans' = ScansAfterSchedule(scans, scan_id, scanner_id, ScheduledTime(NoTime, now))
                /\ scanners' = IncrementScheduled(scanners, scanner_id, req[k].seen)
                /\ req' = [req EXCEPT ![k].pc = "notify", ![k].result = "scheduled"]
           ELSE /\ UNCHANGED <<scans, scanners>>
                /\ req' = [req EXCEPT ![k].pc = "done", ![k].result = err]
    /\ last' = Ran("task_schedule", <<k>>, "ok", 0)
    /\ UNCHANGED <<now, ops, patients, users, audit, notifs, tokens, active_connections, handlers, faqs>>

\* lines 140-170: patient status, notification, commit
TaskNotify(k) ==
    /\ req[k].pc = "notify"
    /\ LET scan_id == req[k].scan_id
           patient_id == scans[scan_id].patient_id
           notified == patient_id \in DOMAIN patients
       IN  /\ patients' = IF notified
                          THEN [patients EXCEPT ![patient_id].status = "waiting"]
                          ELSE patients
           /\ notifs' = IF notified
                        THEN Append(notifs, Notification(patient_id, "appointment",
                                        "CT Scan Scheduled", scan_id, now))
                        ELSE notifs
    /\ req' = [req EXCEPT ![k].pc = "done"]
    /\ last' = Ran("task_notify", <<k>>, "ok", 0)
    /\ UNCHANGED <<now, ops, scans, scanners, users, audit, tokens, active_connections, handlers, faqs>>

\* the clock runs while tasks are suspended
TaskTick ==
    /\ now + Hour <= MaxNow
    /\ now' = now + Hour
    /\ last' = Ran("tick", <<>>, "ok", 0)
    /\ UNCHANGED <<ops, scans, scanners, patients, users, audit, notifs, req, tokens, active_connections, handlers, faqs>>

-----------------------------------------------------------------------------
\* api/websocket.py: the SocketManager registry and the websocket endpoint

Sockets == {1, 2}
Rooms == {"dashboard", "scans"}

\* list.remove(x): the first occurrence goes
RemoveFirst(lst, x) ==
    IF \A i \in DOMAIN lst : lst[i] # x THEN lst
    ELSE LET at == CHOOSE i \in DOMAIN lst : lst[i] = x /\ \A j \in 1..(i - 1) : lst[j] # x
         IN  [i \in 1..(Len(lst) - 1) |-> IF i < at THEN lst[i] ELSE lst[i + 1]]

\* SocketManager.connect, after websocket.accept() has returned
connect(reg, websocket, room) ==
    IF room \in DOMAIN reg THEN [reg EXCEPT ![room] = Append(@, websocket)]
    ELSE reg @@ (room :> <<websocket>>)

disconnect_keep_room(reg, websocket, room) ==
    IF room \notin DOMAIN reg THEN reg
    ELSE [reg EXCEPT ![room] = RemoveFirst(@, websocket)]

\* SocketManager.disconnect
disconnect(reg, websocket, room) ==
    IF room \notin DOMAIN reg THEN reg
    ELSE IF RemoveFirst(reg[room], websocket) = <<>> THEN Without(reg, room)
    ELSE [reg EXCEPT ![room] = RemoveFirst(@, websocket)]

\* SocketManager.broadcast: the connections whose send failed are disconnected
RECURSIVE DisconnectAll(_, _, _)
DisconnectAll(reg, disconnected, room) ==
    IF disconnected = <<>> THEN reg
    ELSE DisconnectAll(disconnect(reg, Head(disconnected), room), Tail(disconnected), room)

\* the connections of a list whose send raised, in list order
Failing(lst, broken) == SelectSeq(lst, LAMBDA c : c \in broken)

\* inbound texts: json objects, json that is no object, and text that is no json
Messages ==
    {[json |-> "object", type |-> "ping", room |-> "none"],
     [json |-> "object", type |-> "subscribe", room |-> "none"],
     [json |-> "object", type |-> "subscribe", room |-> "dashboard"],
     [json |-> "object", type |-> "subscribe", room |-> "scans"],
     [json |-> "array", type |-> "none", room |-> "none"],
     [json |-> "invalid", type |-> "none", room |-> "none"]}

\* websocket.accept(): it returns, or it raises (the client is gone, or the
\* socket is accepted already: what the ASGI layer answers to a second accept
\* is not in this repository, Starlette raises RuntimeError)
AcceptOutcomes == {"accepted", "RuntimeError"}

\* websocket in self.active_connections[room]
InRoom(reg, websocket, room) ==
    room \in DOMAIN reg /\ \E i \in DOMAIN reg[room] : reg[room][i] = websocket

\* websocket_endpoint up to its first receive_text
WsOpen ==
    /\ ops < MaxSocketOps
    /\ \E websocket \in Sockets \ DOMAIN handlers, room \in Rooms :
          /\ active_connections' = connect(active_connections, websocket, room)
          /\ handlers' = handlers @@
                (websocket :> [pc |-> "serving", room |-> room, asked |-> room])
          /\ last' = Ran("ws_open", <<websocket, room>>, "ok", 0)
    /\ ops' = ops + 1
    /\ UNCHANGED <<now, scans, scanners, patients, users, audit, notifs, req, tokens, faqs>>

\* one turn of the endpoint's loop: receive_text returns a text
WsMessage ==
    /\ ops < MaxSocketOps
    /\ \E websocket \in DOMAIN handlers, message \in Messages, accept \in AcceptOutcomes :
          LET h == handlers[websocket]
              new_room == IF message.room = "none" THEN h.room ELSE message.room
              args == <<websocket, message>>
          IN  /\ h.pc = "serving"
              /\ IF message.json = "invalid"
                 THEN /\ last' = Ran("ws_message", args, "ok", 0)
                      /\ UNCHANGED <<active_connections, handlers>>
                 ELSE IF message.json # "object"
                 THEN /\ last' = Ran("ws_message", args, "AttributeError", 0)
                      /\ handlers' = [handlers EXCEPT ![websocket].pc = "failed"]
                      /\ UNCHANGED active_connections
                 ELSE IF message.type = "ping"
                 THEN /\ last' = Ran("ws_message", args, "ok", 0)
                      /\ UNCHANGED <<active_connections, handlers>>
                 ELSE IF accept = "RuntimeError"
                 THEN /\ active_connections' = disconnect(active_connections, websocket, h.room)
                      /\ handlers' = [handlers EXCEPT ![websocket].pc = "failed",
                                                       ![websocket].asked = new_room]
                      /\ last' = Ran("ws_message", args, "RuntimeError", 0)
                 ELSE /\ active_connections' =
                            connect(disconnect(active_connections, websocket, h.room),
                                    websocket, new_room)
                      /\ handlers' = [handlers EXCEPT ![websocket].room = new_room,
                                                       ![websocket].asked = new_room]
                      /\ last' = Ran("ws_message", args, "ok", 0)
    /\ ops' = ops + 1
    /\ UNCHANGED <<now, scans, scanners, patients, users, audit, notifs, req, tokens, faqs>>

\* receive_text raises WebSocketDisconnect: the client is gone
WsDisconnect ==
    /\ ops < MaxSocketOps
    /\ \E websocket \in DOMAIN handlers :
          /\ handlers[websocket].pc = "serving"
          /\ active_connections' =
                disconnect(active_connections, websocket, handlers[websocket].room)
          /\ handlers' = [handlers EXCEPT ![websocket].pc = "closed"]
          /\ last' = Ran("ws_disconnect", <<websocket>>, "ok", 0)
    /\ ops' = ops + 1
    /\ UNCHANGED <<now, scans, scanners, patients, users, audit, notifs, req, tokens, faqs>>

\* the registry operations called on socket_manager directly
Connect ==
    /\ ops < MaxSocketOps
    /\ \E websocket \in Sockets, room \in Rooms, accept \in AcceptOutcomes :
          IF accept = "RuntimeError"
          THEN /\ last' = Ran("connect", <<websocket, room>>, "RuntimeError", 0)
               /\ UNCHANGED active_connections
          ELSE /\ active_connections' = connect(active_connections, websocket, room)
               /\ last' = Ran("connect", <<websocket, room>>, "ok", 0)
    /\ ops' = ops + 1
    /\ UNCHANGED <<now, scans, scanners, patients, users, audit, notifs, req, tokens,
                   handlers, faqs>>

Disconnect ==
    /\ ops < MaxSocketOps
    /\ \E websocket \in Sockets, room \in Rooms :
          /\ active_connections' = disconnect(active_connections, websocket, room)
          /\ last' = Ran("disconnect", <<websocket, room>>,
                         IF InRoom(active_connections, websocket, room)
                         THEN "removed" ELSE "absent", 0)
    /\ ops' = ops + 1
    /\ UNCHANGED <<now, scans, scanners, patients, users, audit, notifs, req, tokens,
                   handlers, faqs>>

Broadcast ==
    /\ ops < MaxSocketOps
    /\ \E room \in Rooms, broken \in SUBSET Sockets :
          /\ active_connections' =
                IF room \in DOMAIN active_connections
                THEN DisconnectAll(active_connections,
                                   Failing(active_connections[room], broken), room)
                ELSE active_connections
          /\ last' = Ran("broadcast", <<room, broken>>, "ok", 0)
    /\ ops' = ops + 1
    /\ UNCHANGED <<now, scans, scanners, patients, users, audit, notifs, req, tokens,
                   handlers, faqs>>

\* --- PUT /scans/{scan_id}, PUT /scanners/{scanner_id},
\* PATCH /scanners/{scanner_id}/status, get_scanner_utilization_report

\* CTScanUpdate bodies
ScanUpdateBodies ==
    {[status |-> "completed", completed_time |-> MaxNow],
     [scanner_id |-> 1, status |-> "in_progress"], [scanner_id |-> MissingId]}

\* ct_scans.scanner_id references scanners.id
ScanUpdateOk(update_data) ==
    "scanner_id" \in DOMAIN update_data => update_data.scanner_id \in DOMAIN scanners

UpdateScan ==
    /\ ops < MaxOps
    /\ \E credentials \in RequestTokens, scan_id \in ScanIds \cup {MissingId},
          update_data \in ScanUpdateBodies :
          LET caller == get_current_user_id(credentials, now)
              args == <<scan_id, update_data>>
          IN  IF caller.code # 200
              THEN /\ last' = Ran("update_scan", args, caller.code, 0)
                   /\ UNCHANGED scans
              ELSE IF scan_id \notin DOMAIN scans
              THEN /\ last' = Ran("update_scan", args, 404, 0)
                   /\ UNCHANGED scans
              ELSE IF ~ScanUpdateOk(update_data)
              THEN /\ last' = Ran("update_scan", args, 500, 0)
                   /\ UNCHANGED scans
              ELSE /\ scans' = [scans EXCEPT ![scan_id] = SetFields(@, update_data, now)]
                   /\ last' = Ran("update_scan", args, 200, scan_id)
    /\ ops' = ops + 1
    /\ UNCHANGED <<now, scanners, patients, users, audit, notifs, req, tokens,
                   active_connections, handlers, faqs>>

\* request bodies of the scanner update route, as the JSON objects clients send
ScannerUpdateRequests ==
    {[daily_capacity |-> 1], [is_active |-> FALSE],
     [today_scans_completed |-> 1, today_scans_scheduled |-> 0],
     [daily_capacity |-> 0, today_scans_completed |-> 1]}

ScannerUpdateAllowExtra(body) == body

\* ScannerUpdate(**body).model_dump(exclude_unset=True): the keys the schema
\* declares; pydantic ignores the others
ScannerUpdate(body) ==
    [f \in DOMAIN body \cap
           {"name", "location", "scanner_type", "slice_count", "status",
            "operational_hours_start", "operational_hours_end",
            "avg_scan_duration_minutes", "daily_capacity", "is_active",
            "maintenance_notes"} |-> body[f]]

UpdateScanner ==
    /\ ops < MaxOps
    /\ \E credentials \in RequestTokens, scanner_id \in ScannerIds \cup {MissingId},
          body \in ScannerUpdateRequests :
          LET caller == get_current_user_id(credentials, now)
              args == <<scanner_id, body>>
          IN  IF caller.code # 200
              THEN /\ last' = Ran("update_scanner", args, caller.code, 0)
                   /\ UNCHANGED scanners
              ELSE IF scanner_id \notin DOMAIN scanners
              THEN /\ last' = Ran("update_scanner", args, 404, 0)
                   /\ UNCHANGED scanners
              ELSE /\ scanners' = [scanners EXCEPT ![scanner_id] =
                                       SetFields(@, ScannerUpdate(body), now)]
                   /\ last' = Ran("update_scanner", args, 200, scanner_id)
    /\ ops' = ops + 1
    /\ UNCHANGED <<now, scans, patients, users, audit, notifs, req, tokens,
                   active_connections, handlers, faqs>>

UpdateScannerStatus ==
    /\ ops < MaxOps
    /\ \E credentials \in RequestTokens, scanner_id \in ScannerIds \cup {MissingId},
          new_status \in ScannerStatus :
          LET caller == get_current_user_id(credentials, now)
              args == <<scanner_id, new_status>>
          IN  IF caller.code # 200
              THEN /\ last' = Ran("update_scanner_status", args, caller.code, 0)
                   /\ UNCHANGED scanners
              ELSE IF scanner_id \notin DOMAIN scanners
              THEN /\ last' = Ran("update_scanner_status", args, 404, 0)
                   /\ UNCHANGED scanners
              ELSE /\ scanners' = [scanners EXCEPT ![scanner_id].status = new_status]
                   /\ last' = Ran("update_scanner_status", args, 200, scanner_id)
    /\ ops' = ops + 1
    /\ UNCHANGED <<now, scans, patients, users, audit, notifs, req, tokens,
                   active_connections, handlers, faqs>>

\* round(completed / capacity * 100, 1) in tenths of a percent, 0 for capacity 0
Utilization(completed, capacity) ==
    IF capacity > 0 THEN (2000 * completed + capacity) \div (2 * capacity) ELSE 0

RECURSIVE SumOf(_, _, _)
SumOf(rows, ids, field) ==
    IF ids = {} THEN 0
    ELSE LET id == CHOOSE x \in ids : TRUE
         IN  rows[id][field] + SumOf(rows, ids \ {id}, field)

get_scanner_utilization_report(scs) ==
    LET active == {id \in DOMAIN scs : scs[id].is_active}
        total_capacity == SumOf(scs, active, "daily_capacity")
        total_scans == SumOf(scs, active, "today_scans_completed")
    IN  [scanners |->
            [id \in active |->
                [status |-> scs[id].status,
                 today_scans_completed |-> scs[id].today_scans_completed,
                 today_scans_scheduled |-> scs[id].today_scans_scheduled,
                 daily_capacity |-> scs[id].daily_capacity,
                 utilization_percent |->
                     Utilization(scs[id].today_scans_completed, scs[id].daily_capacity)]],
         summary |->
            [total_scanners |-> Cardinality(active),
             available_scanners |->
                 Cardinality({id \in active : scs[id].status = "available"}),
             total_capacity_today |-> total_capacity,
             total_scans_completed_today |-> total_scans,
             overall_utilization_percent |-> Utilization(total_scans, total_capacity)]]

GetUtilizationReport ==
    /\ ops < MaxOps
    /\ last' = Ran("get_scanner_utilization_report", <<>>, "ok",
                   get_scanner_utilization_report(scanners))
    /\ ops' = ops + 1
    /\ UNCHANGED <<now, scans, scanners, patients, users, audit, notifs, req, tokens,
                   active_connections, handlers, faqs>>

\* --- SocketManager.broadcast as a task that suspends at every send, with
\* connects and disconnects of other tasks running in between.  req[1] is the
\* broadcast: the room, how many list positions the for loop has consumed,
\* the connections whose send raised, and whether the list the loop iterates
\* is still the room's list (disconnect deletes the room with its last
\* connection; a later connect makes a new list the loop never sees).

BroadcastSockets == 1..3

Broadcasting == 1 \in DOMAIN req /\ req[1].pc = "sending"

\* the list object the for loop iterates
IteratedList ==
    IF req[1].detached \/ req[1].room \notin DOMAIN active_connections THEN <<>>
    ELSE active_connections[req[1].room]

\* broadcast up to its first suspension: the room test
BroadcastStart ==
    /\ ops < MaxSocketOps
    /\ req = NoRows
    /\ \E room \in Rooms, broken \in SUBSET BroadcastSockets :
          /\ req' = (1 :> [pc |-> IF room \in DOMAIN active_connections THEN "sending" ELSE "done",
                           room |-> room, index |-> 0, disconnected |-> <<>>,
                           detached |-> FALSE, broken |-> broken,
                           sends |-> [c \in BroadcastSockets |-> 0],
                           present |-> IF room \in DOMAIN active_connections
                                       THEN {active_connections[room][i] :
                                                i \in DOMAIN active_connections[room]}
                                       ELSE {},
                           left |-> {}])
          /\ last' = Ran("broadcast", <<room, broken>>, "ok", 0)
    /\ ops' = ops + 1
    /\ UNCHANGED <<now, scans, scanners, patients, users, audit, notifs, tokens,
                   active_connections, handlers, faqs>>

\* one pass of the loop body: the iterator yields the next position of the
\* list, send_text is awaited, a send that raises is noted
BroadcastSend ==
    /\ Broadcasting
    /\ req[1].index < Len(IteratedList)
    /\ LET connection == IteratedList[req[1].index + 1]
       IN  req' = [req EXCEPT ![1].index = @ + 1,
                              ![1].sends[connection] = @ + 1,
                              ![1].disconnected =
                                  IF connection \in req[1].broken THEN Append(@, connection) ELSE @]
    /\ UNCHANGED <<now, ops, scans, scanners, patients, users, audit, notifs, tokens,
                   active_connections, handlers, faqs, last>>

\* the iterator is exhausted: the connections whose send raised are disconnected
BroadcastFinish ==
    /\ Broadcasting
    /\ req[1].index >= Len(IteratedList)
    /\ active_connections' = DisconnectAll(active_connections, req[1].disconnected, req[1].room)
    /\ req' = [req EXCEPT ![1].pc = "done"]
    /\ UNCHANGED <<now, ops, scans, scanners, patients, users, audit, notifs, tokens,
                   handlers, faqs, last>>

\* another task connects a new websocket
ConnectMeanwhile ==
    /\ ops < MaxSocketOps
    /\ \E websocket \in BroadcastSockets, room \in Rooms :
          /\ \A r \in Rooms : ~InRoom(active_connections, websocket, r)
          /\ active_connections' = connect(active_connections, websocket, room)
          /\ last' = Ran("connect", <<websocket, room>>, "ok", 0)
    /\ ops' = ops + 1
    /\ UNCHANGED <<now, scans, scanners, patients, users, audit, notifs, req, tokens,
                   handlers, faqs>>

\* another task disconnects a websocket
DisconnectMeanwhile ==
    /\ ops < MaxSocketOps
    /\ \E websocket \in BroadcastSockets, room \in Rooms :
          /\ active_connections' = disconnect(active_connections, websocket, room)
          /\ req' = IF Broadcasting /\ req[1].room = room
                    THEN [req EXCEPT ![1].left = @ \cup {websocket},
                                     ![1].detached = @ \/ room \notin DOMAIN active_connections']
                    ELSE req
          /\ last' = Ran("disconnect", <<websocket, room>>,
                         IF InRoom(active_connections, websocket, room)
                         THEN "removed" ELSE "absent", 0)
    /\ ops' = ops + 1
    /\ UNCHANGED <<now, scans, scanners, patients, users, audit, notifs, tokens,
                   handlers, faqs>>

\* --- ResourceAgent.forecast_capacity

MaxHoursAhead == 2

hour_key_exact(t) == t

\* strftime("%Y-%m-%d %H:00"): the clock hour a time lies in
hour_key(t) == t \div Hour

\* the scans the query selects: scheduled in [now, end_time], in an active status
ForecastScheduledScans(hours_ahead, t) ==
    {id \in DOMAIN scans :
        /\ scans[id].scheduled_time # NoTime
        /\ scans[id].scheduled_time >= t
        /\ scans[id].scheduled_time <= t + hours_ahead * Hour
        /\ scans[id].status \in ActiveStatuses}

\* hourly_demand.get(hour_key, 0)
hourly_demand(scheduled_scans, key) ==
    Cardinality({id \in scheduled_scans : hour_key(scans[id].scheduled_time) = key})

\* round(demand / capacity_per_hour * 100, 1), in tenths of a percent
utilization_percent(demand, capacity_per_hour) ==
    IF capacity_per_hour > 0
    THEN (2000 * demand + capacity_per_hour) \div (2 * capacity_per_hour)
    ELSE 0

\* "high" if utilization > 80 else "normal" if utilization > 50 else "low"
utilization_status(demand, capacity_per_hour) ==
    IF capacity_per_hour > 0 /\ 100 * demand > 80 * capacity_per_hour THEN "high"
    ELSE IF capacity_per_hour > 0 /\ 100 * demand > 50 * capacity_per_hour THEN "normal"
    ELSE "low"

get_capacity_recommendations(forecast) ==
    (IF \E h \in DOMAIN forecast : forecast[h].utilization_percent > 800
     THEN <<"High utilization expected", "Consider adding extra scanning slots or staff">>
     ELSE <<>>)
    \o (IF \E h \in DOMAIN forecast : forecast[h].status = "high"
        THEN <<"Recommend scheduling non-urgent scans during low-utilization hours">>
        ELSE <<>>)

forecast_capacity(hours_ahead, t) ==
    LET scheduled_scans == ForecastScheduledScans(hours_ahead, t)
        capacity_per_hour == Cardinality({id \in DOMAIN scanners : scanners[id].is_active}) * 2
        forecast ==
            [h \in 1..hours_ahead |->
                LET key == hour_key(t + (h - 1) * Hour)
                    demand == hourly_demand(scheduled_scans, key)
                IN  [hour |-> key, demand |-> demand, capacity |-> capacity_per_hour,
                     utilization_percent |-> utilization_percent(demand, capacity_per_hour),
                     status |-> utilization_status(demand, capacity_per_hour)]]
    IN  [forecast_period_hours |-> hours_ahead, hourly_forecast |-> forecast,
         recommendations |-> get_capacity_recommendations(forecast)]

ForecastCapacity ==
    /\ ops < MaxOps
    /\ \E hours_ahead \in 1..MaxHoursAhead :
          last' = Ran("forecast_capacity", <<hours_ahead>>, "ok", forecast_capacity(hours_ahead, now))
    /\ ops' = ops + 1
    /\ UNCHANGED <<now, scans, scanners, patients, users, audit, notifs, req, tokens,
                   active_connections, handlers, faqs>>

\* --- Clinical Agent called on its own: analyze_ct_indication, calculate_gcs_score

AnalyzeIndications ==
    {<<"acute", "Stroke", "symptoms", "with", "trauma">>, <<"confusion">>, <<"syncope">>,
     <<"headache", "without", "focal", "findings">>, <<"focal">>, <<"polytrauma">>,
     <<"cognitive", "decline">>, <<"head", "trauma,", "mild", "with", "loss">>, <<"dizzy">>}

AnalyzeHistories == {<<>>, <<"deficit">>, <<"TRAUMA">>, <<"seizure", "with", "focal", "features">>}

AnalyzeSymptoms == {<<>>, <<"comatose">>, <<"dizziness/vertigo">>}

AnalyzeIndication ==
    /\ ops < MaxOps
    /\ \E ct_indication \in AnalyzeIndications, clinical_history \in AnalyzeHistories,
          symptoms \in AnalyzeSymptoms :
          last' = Ran("analyze_ct_indication", <<ct_indication, clinical_history, symptoms>>,
                     "ok", analyze_ct_indication(ct_indication, clinical_history, symptoms))
    /\ ops' = ops + 1
    /\ UNCHANGED <<now, scans, scanners, patients, users, audit, notifs, req, tokens,
                   active_connections, handlers, faqs>>

MaxGcsInput == 7

GcsInputs == (0 - 1)..MaxGcsInput

\* sorted(interpretations.keys()) read in ascending order
interpret_gcs_ascending(score) ==
    IF score >= 8 THEN "Severe brain injury (coma)"
    ELSE IF score >= 9 THEN "Moderate brain injury"
    ELSE IF score >= 13 THEN "Minor brain injury"
    ELSE IF score >= 15 THEN "Normal consciousness"
    ELSE "Critical - immediate intervention required"

\* the first key, from the largest down, the score reaches
interpret_gcs(score) ==
    IF score >= 15 THEN "Normal consciousness"
    ELSE IF score >= 13 THEN "Minor brain injury"
    ELSE IF score >= 9 THEN "Moderate brain injury"
    ELSE IF score >= 8 THEN "Severe brain injury (coma)"
    ELSE "Critical - immediate intervention required"

calculate_gcs_score(eye_response, verbal_response, motor_response) ==
    LET total_score == eye_response + verbal_response + motor_response
    IN  [total_score |-> total_score, eye |-> eye_response, verbal |-> verbal_response,
         motor |-> motor_response,
         severity |-> IF total_score >= 13 THEN "mild"
                      ELSE IF total_score >= 9 THEN "moderate"
                      ELSE "severe",
         interpretation |-> interpret_gcs(total_score)]

CalculateGcs ==
    /\ ops < MaxOps
    /\ \E eye_response \in GcsInputs, verbal_response \in GcsInputs, motor_response \in GcsInputs :
          last' = Ran("calculate_gcs_score", <<eye_response, verbal_response, motor_response>>,
                     "ok", calculate_gcs_score(eye_response, verbal_response, motor_response))
    /\ ops' = ops + 1
    /\ UNCHANGED <<now, scans, scanners, patients, users, audit, notifs, req, tokens,
                   active_connections, handlers, faqs>>

-----------------------------------------------------------------------------
\* Initial states

Users1 == (1 :> NewUser("alice", "a@b.com", "pw1"))
Patients1 == (1 :> NewPatient("M-100", "null"))

Opens == <<0, 0>>
Closes == <<2, 0>>

InitTables(nows, scanTables, scannerTables, patientTables, userTables) ==
    /\ now \in nows
    /\ ops = 0
    /\ scans \in scanTables
    /\ scanners \in scannerTables
    /\ patients \in patientTables
    /\ users \in userTables
    /\ audit = <<>>
    /\ notifs = <<>>
    /\ req = NoRows
    /\ tokens = {}
    /\ active_connections = NoRows
    /\ handlers = NoRows
    /\ faqs = NoRows
    /\ last = [op |-> "init", args |-> <<>>, at |-> 0, result |-> "ok", ret |-> 0]

\* --- everything that writes scans or scanners, on a scan in progress
CounterScans ==
    {(1 :> [Numbered(NewScan(1, <<"confusion">>, <<>>, <<>>),
                     generate_scan_number(0, <<"a", "1", "f", "0">>))
               EXCEPT !.status = "in_progress", !.scanner_id = 1, !.scheduled_time = Min15])}

CounterScanners ==
    {(1 :> ScannerRow("CT-01", "available", TRUE, "standard", Opens, Closes, MaxCap, 1))}

InitCounters == InitTables({Min15 + 1}, CounterScans, CounterScanners, {Patients1}, {Users1})

NextCounters ==
    \/ OrchUpdateScanStatus
    \/ PatchScanStatus
    \/ UpdateScan
    \/ UpdateScanner
    \/ UpdateScannerStatus
    \/ ScheduleScan
    \/ CreateScanner
    \/ GetUtilizationReport

SpecCounters == InitCounters /\ [][NextCounters]_vars

\* --- one broadcast, with connects and disconnects between its sends
BroadcastRooms ==
    {NoRows, ("scans" :> <<1>>), ("scans" :> <<1, 2>>), ("scans" :> <<2, 1, 3>>),
     ("dashboard" :> <<3>>) @@ ("scans" :> <<1, 2>>)}

InitBroadcast ==
    /\ now = 0
    /\ ops = 0
    /\ scans = NoRows
    /\ scanners = NoRows
    /\ patients = NoRows
    /\ users = NoRows
    /\ audit = <<>>
    /\ notifs = <<>>
    /\ req = NoRows
    /\ tokens = {}
    /\ active_connections \in BroadcastRooms
    /\ handlers = NoRows
    /\ faqs = NoRows
    /\ last = [op |-> "init", args |-> <<>>, at |-> 0, result |-> "ok", ret |-> 0]

NextBroadcast ==
    BroadcastStart \/ BroadcastSend \/ BroadcastFinish \/ ConnectMeanwhile \/ DisconnectMeanwhile

SpecBroadcast == InitBroadcast /\ [][NextBroadcast]_vars

\* --- forecast_capacity, on up to three scans and up to two active scanners
ForecastScanners ==
    {NoRows,
     (1 :> ScannerRow("CT-01", "available", TRUE, "standard", Opens, Closes, MaxCap, 0))
        @@ (2 :> ScannerRow("CT-02", "available", FALSE, "standard", Opens, Closes, MaxCap, 0)),
     (1 :> ScannerRow("CT-01", "available", TRUE, "standard", Opens, Closes, MaxCap, 0))
        @@ (2 :> ScannerRow("CT-02", "maintenance", TRUE, "standard", Opens, Closes, MaxCap, 0))}

Booked(status, scheduled_time) ==
    [NewScan(1, <<"syncope">>, <<>>, <<>>) EXCEPT !.status = status, !.scheduled_time = scheduled_time]

ForecastScans ==
    {[id \in ids |->
        CASE id = 1 -> Booked(status, first)
          [] id = 2 -> Booked("in_prep", second)
          [] OTHER -> Booked("scheduled", second + third)] :
        ids \in {{}, {1}, {1, 2}, {1, 2, 3}},
        status \in {"scheduled", "in_progress", "completed"},
        first \in {NoTime} \cup {q * Min15 : q \in 0..MaxQuarter},
        second \in {Hour, Hour + Min15, 2 * Hour},
        third \in {0, Min15, Hour}}

InitForecast ==
    InitTables({0, 2 * Min15, Hour}, ForecastScans, ForecastScanners, {Patients1}, {Users1})

NextForecast == ForecastCapacity \/ Tick

SpecForecast == InitForecast /\ [][NextForecast]_vars

\* --- the Clinical Agent's pure operations, on texts and on GCS components
InitClinicalTools == InitTables({0}, {NoRows}, {NoRows}, {NoRows}, {NoRows})

NextClinicalTools == AnalyzeIndication \/ CalculateGcs

SpecClinicalTools == InitClinicalTools /\ [][NextClinicalTools]_vars

\* --- find_available_scanner on its own, at every instant of the clock
FindScannerRows(code) ==
    {ScannerRow(code, st, active, ty, <<1, 0>>, <<2, 0>>, MaxCap, sched) :
        st \in {"available", "maintenance"}, active \in BOOLEAN,
        ty \in {"standard", "advanced"}, sched \in 0..MaxCap}

FindScanners ==
    {(1 :> a) @@ (2 :> b) : a \in FindScannerRows("CT-01"), b \in FindScannerRows("CT-02")}

InitFind == InitTables(0..MaxNow, {NoRows}, FindScanners, {NoRows}, {Users1})

NextFind == FindAvailableScanner \/ Tick

SpecFind == InitFind /\ [][NextFind]_vars

\* --- scheduling: schedule_scan and process_new_scan_order
ScheduleScans ==
    {(1 :> NewScan(1, text, <<>>, <<>>)) @@ (2 :> NewScan(1, <<"syncope">>, <<>>, <<>>)) :
        text \in SampleTexts}

ScheduleScanners ==
    {(1 :> ScannerRow("CT-01", "available", TRUE, "standard", Opens, Closes, MaxCap, sched))
        @@ (2 :> ScannerRow("CT-02", st, TRUE, "standard", Opens, Closes, MaxCap, 0)) :
        sched \in 0..MaxCap, st \in ScannerStatus}

InitSchedule ==
    InitTables({Min15 + 1}, ScheduleScans, ScheduleScanners, {Patients1}, {Users1})

NextSchedule == ScheduleScan \/ Tick

SpecSchedule == InitSchedule /\ [][NextSchedule]_vars

\* --- process_new_scan_order, on scanners that may already hold scans
OrderScanners ==
    {(1 :> ScannerRow("CT-01", "available", TRUE, "standard", Opens, Closes, MaxCap, sched))
        @@ (2 :> ScannerRow("CT-02", st, TRUE, "standard", Opens, Closes, MaxCap, 0)) :
        sched \in 0..MaxCap, st \in {"available", "maintenance"}}

InitOrder ==
    InitTables({Min15 + 1}, ScheduleScans, OrderScanners, {Patients1}, {Users1})

NextOrder == ProcessNewScanOrder \/ ScheduleScan

SpecOrder == InitOrder /\ [][NextOrder]_vars

\* --- the scan lifecycle under the agent operations
LifecycleScans == {(1 :> NewScan(1, <<"confusion">>, <<>>, <<>>))}

LifecycleScanners ==
    {(1 :> ScannerRow("CT-01", "available", TRUE, "standard", Opens, Closes, MaxCap, 0))}

InitLifecycle ==
    InitTables({Min15 + 1}, LifecycleScans, LifecycleScanners, {Patients1}, {Users1})

NextLifecycle == ApplyAnalysis \/ ScheduleScan \/ ProcessNewScanOrder \/ OrchUpdateScanStatus

SpecLifecycle == InitLifecycle /\ [][NextLifecycle]_vars

\* --- apply-analysis on scans in every status
NextClinical == ApplyAnalysis \/ OrchUpdateScanStatus

SpecClinical == InitLifecycle /\ [][NextClinical]_vars

\* --- Orchestration update_scan_status on scans with and without a final report
StatusScans ==
    {(1 :> [NewScan(1, <<"confusion">>, <<>>, <<>>) EXCEPT !.final_report = fr, !.status = "scheduled"])
        @@ (2 :> NewScan(1, <<"syncope">>, <<>>, <<>>)) : fr \in BOOLEAN}

InitStatus == InitTables({0}, StatusScans, LifecycleScanners, {Patients1}, {Users1})

NextStatus == OrchUpdateScanStatus \/ Tick

SpecStatus == InitStatus /\ [][NextStatus]_vars

\* --- the create routes, from empty tables
InitCreate == InitTables({0}, {NoRows}, {NoRows}, {NoRows}, {NoRows})

NextCreate == CreatePatient \/ Register \/ CreateUser \/ CreateScanner

SpecCreate == InitCreate /\ [][NextCreate]_vars

\* --- accounts: one disabled user, and whoever registers
DisabledUsers == {(1 :> [NewUser("alice", "a@b.com", "pw1") EXCEPT !.is_active = FALSE])}

InitAuth == InitTables({0, Hour}, {NoRows}, {NoRows}, {NoRows}, DisabledUsers)

NextAuth == Register \/ Login \/ RefreshToken \/ ActivateUser \/ DeactivateUser \/ Tick

SpecAuth == InitAuth /\ [][NextAuth]_vars

\* --- the bearer-protected routes, one patient with and without a scan
GuardScans ==
    {NoRows,
     (1 :> Numbered(NewScan(1, <<"confusion">>, <<>>, <<>>),
                    generate_scan_number(0, <<"a", "1", "f", "0">>)))}

InitGuard == InitTables({0, Min15}, GuardScans, {NoRows}, {Patients1}, {Users1})

NextGuard ==
    \/ CreateScan \/ DeletePatient \/ CreatePatient \/ CreateUser \/ CreateScanner
    \/ PatchScanStatus \/ RefreshToken \/ ActivateUser \/ DeactivateUser

SpecGuard == InitGuard /\ [][NextGuard]_vars

\* --- issuing and decoding tokens as the clock runs
InitToken == InitTables({0, 1, MicroSteps}, {NoRows}, {NoRows}, {NoRows}, {NoRows})

NextToken == IssueToken \/ DecodeToken \/ Tick

SpecToken == InitToken /\ [][NextToken]_vars

\* --- connections served by the websocket endpoint
InitEndpoint == InitTables({0}, {NoRows}, {NoRows}, {NoRows}, {NoRows})

NextEndpoint == WsOpen \/ WsMessage \/ WsDisconnect

SpecEndpoint == InitEndpoint /\ [][NextEndpoint]_vars

\* --- the registry under connect, disconnect and broadcast
NextRegistry == Connect \/ Disconnect \/ Broadcast

SpecRegistry == InitEndpoint /\ [][NextRegistry]_vars

\* --- the patient update route, on two patients that differ in every column
UpdatePatients ==
    (1 :> PatientRecord("M-100", "null", "019-111", "in_scan", "mild", TRUE, 0))
        @@ (2 :> PatientRecord("M-200", "900101", "null", "registered", "none", FALSE, 1))

InitUpdate == InitTables({Min15}, {NoRows}, {NoRows}, {UpdatePatients}, {Users1})

NextUpdate == UpdatePatient \/ Tick

SpecUpdate == InitUpdate /\ [][NextUpdate]_vars

\* --- the FAQ routes, on one FAQ that has been read and rated
Faqs1 == (1 :> FaqRow("procedure", 2, 1, 0, 0))

InitFaq ==
    /\ now = Min15
    /\ ops = 0
    /\ scans = NoRows
    /\ scanners = NoRows
    /\ patients = NoRows
    /\ users = Users1
    /\ audit = <<>>
    /\ notifs = <<>>
    /\ req = NoRows
    /\ tokens = {}
    /\ active_connections = NoRows
    /\ handlers = NoRows
    /\ faqs = Faqs1
    /\ last = [op |-> "init", args |-> <<>>, at |-> 0, result |-> "ok", ret |-> 0]

NextFaq == CreateFaq \/ GetFaq \/ UpdateFaq \/ ProvideFeedback \/ DeleteFaq \/ Tick

SpecFaq == InitFaq /\ [][NextFaq]_vars

\* --- the scan status-patch route
PatchScans ==
    {(1 :> [NewScan(1, <<"confusion">>, <<>>, <<>>) EXCEPT !.status = st]) : st \in {"ordered", "scheduled"}}

InitPatch == InitTables({0}, PatchScans, {NoRows}, {Patients1}, {Users1})

NextPatch == PatchScanStatus \/ Tick

SpecPatch == InitPatch /\ [][NextPatch]_vars

\* --- two concurrent scan orders and one scanner with one free slot
RaceScans ==
    {(1 :> NewScan(1, t1, <<>>, <<>>)) @@ (2 :> NewScan(1, t2, <<>>, <<>>)) :
        t1 \in SampleTexts, t2 \in {<<"syncope">>}}

RaceScanners ==
    {(1 :> ScannerRow("CT-01", "available", TRUE, "standard", Opens, Closes, 1, 0))}

InitRace ==
    /\ now = Min15
    /\ ops = 0
    /\ scans \in RaceScans
    /\ scanners \in RaceScanners
    /\ patients = Patients1
    /\ users = Users1
    /\ audit = <<>>
    /\ notifs = <<>>
    /\ req = [k \in Tasks |-> Task("start", k)]
    /\ tokens = {}
    /\ active_connections = NoRows
    /\ handlers = NoRows
    /\ faqs = NoRows
    /\ last = [op |-> "init", args |-> <<>>, at |-> 0, result |-> "ok", ret |-> 0]

NextRace ==
    \/ \E k \in Tasks : TaskValidate(k)
    \/ \E k \in Tasks : TaskLookup(k)
    \/ \E k \in Tasks : TaskSchedule(k)
    \/ \E k \in Tasks : TaskNotify(k)
    \/ TaskTick

SpecRace == InitRace /\ [][NextRace]_vars

-----------------------------------------------------------------------------
\* Properties

\* a step that is one whole operation named op
Step(op) == ops' = ops + 1 /\ last'.op = op

\* position of a status in the lifecycle
Rank(st) ==
    CASE st = "ordered" -> 1
      [] st = "validated" -> 2
      [] st = "scheduled" -> 3
      [] st = "in_prep" -> 4
      [] st = "in_progress" -> 5
      [] st = "completed" -> 6
      [] st = "reported" -> 7
      [] st = "cancelled" -> 8

\* C1: under the agent operations a scan's status never moves to an earlier
\* stage of ordered -> validated -> scheduled -> in_prep -> in_progress ->
\* completed -> reported (a move to cancelled is allowed), and the status of a
\* reported or cancelled scan never changes.
C1_StatusMovesForwardOnly ==
    [][\A id \in DOMAIN scans :
          /\ scans[id].status \in {"reported", "cancelled"}
                => scans'[id].status = scans[id].status
          /\ scans'[id].status # scans[id].status
                => \/ scans'[id].status = "cancelled"
                   \/ Rank(scans'[id].status) > Rank(scans[id].status)]_vars

UniqueIn(tbl, column) ==
    \A a, b \in DOMAIN tbl : a # b => tbl[a][column] # tbl[b][column]

KeysUnique ==
    /\ UniqueIn(patients, "mrn")
    /\ UniqueIn(users, "username")
    /\ UniqueIn(users, "email")
    /\ UniqueIn(scanners, "scanner_code")

\* the key of the create request of this step is stored already
KeyStored ==
    \/ Step("create_patient") /\ Stored(patients, "mrn", last'.args[2])
    \/ /\ Step("register") \/ Step("create_user")
       /\ Stored(users, "username", last'.args[1]) \/ Stored(users, "email", last'.args[2])
    \/ Step("create_scanner") /\ Stored(scanners, "scanner_code", last'.args[1])

\* C2: at most one patient per MRN, one user per username and per email, one
\* scanner per scanner_code; a create request that reaches its handler (it is
\* not turned away with 401) with a key that is stored already is answered
\* 400 and leaves the patients, users and scanners as they were.
C2_KeysStayUnique ==
    /\ []KeysUnique
    /\ [][KeyStored /\ last'.result # 401
            => /\ last'.result = 400
               /\ UNCHANGED <<patients, users, scanners>>]_vars

\* C2 witness: a second create-user request with a new username and a stored
\* email was answered 400, and one user is stored
C2_DuplicateRejected ==
    /\ last.op = "create_user"
    /\ last.result = 400
    /\ last.ret = "Email already exists"
    /\ Cardinality(DOMAIN users) = 1

\* the instant HH:MM:00.000000 of t's day
WallClock(t, hm) == DayStart(t) + hm[1] * Hour + Minutes(hm[2])

\* the operational window of the scanner contains [t, t + duration]
WindowContains(sc, t, duration_minutes) ==
    /\ WallClock(t, sc.operational_hours_start) <= t
    /\ t + Minutes(duration_minutes) <= WallClock(t, sc.operational_hours_end)

Fit(sc, t, duration_minutes, ty) ==
    /\ sc.today_scans_scheduled < sc.daily_capacity
    /\ sc.is_active
    /\ sc.status = "available"
    /\ (ty # "any" => sc.scanner_type = ty)
    /\ WindowContains(sc, t, duration_minutes)

\* C3: find_available_scanner returns only a scanner with spare capacity that
\* is active, available, of the preferred type and whose operational window
\* contains [now, now + duration]; it returns none only when no scanner is so.
C3_FindReturnsOnlyFit ==
    last.op = "find_available_scanner" =>
        IF last.ret # NoScanner
        THEN Fit(scanners[last.ret], last.at, last.args[1], last.args[2])
        ELSE \A id \in DOMAIN scanners :
                ~Fit(scanners[id], last.at, last.args[1], last.args[2])

\* C4: schedule_scan on an existing scan and an existing scanner in status
\* available succeeds whatever the counter is: the scan gets the scanner, the
\* supplied time (now + 15 minutes without one) and status scheduled, and
\* today_scans_scheduled goes up by exactly 1.
C4_ScheduleAlwaysAccepted ==
    [][/\ Step("schedule_scan")
       /\ last'.args[1] \in DOMAIN scans
       /\ last'.args[2] \in DOMAIN scanners
       /\ scanners[last'.args[2]].status = "available"
       => LET scan_id == last'.args[1]
              scanner_id == last'.args[2]
              supplied == last'.args[3]
          IN  /\ last'.result = "ok"
              /\ scans'[scan_id].scanner_id = scanner_id
              /\ scans'[scan_id].scheduled_time =
                    (IF supplied = NoTime THEN now + Minutes(15) ELSE supplied)
              /\ scans'[scan_id].status = "scheduled"
              /\ scanners'[scanner_id].today_scans_scheduled =
                    scanners[scanner_id].today_scans_scheduled + 1]_vars

\* C4 witness: a schedule_scan succeeded and left the counter above daily_capacity
C4_CounterAboveCapacity ==
    /\ last.op = "schedule_scan"
    /\ last.result = "ok"
    /\ scanners[last.args[2]].today_scans_scheduled > scanners[last.args[2]].daily_capacity
    /\ scans[last.args[1]].status = "scheduled"

\* C5: schedule_scan fails with NotFound for a missing scan or scanner and with
\* InvalidState for a scanner that is not available, and a failed call leaves
\* the scans and the scanners as they were.
C5_ScheduleFailures ==
    [][Step("schedule_scan")
       => LET scan_id == last'.args[1]
              scanner_id == last'.args[2]
          IN  /\ (scan_id \notin DOMAIN scans \/ scanner_id \notin DOMAIN scanners)
                    => ErrorKind(last'.result) = "NotFound"
              /\ (/\ scan_id \in DOMAIN scans
                  /\ scanner_id \in DOMAIN scanners
                  /\ scanners[scanner_id].status # "available")
                    => ErrorKind(last'.result) = "InvalidState"
              /\ last'.result # "ok" => UNCHANGED <<scans, scanners>>]_vars

\* C5 witness: a schedule_scan on a scanner in maintenance was refused
C5_RefusedUnavailable ==
    /\ last.op = "schedule_scan"
    /\ last.result = "Scanner is not available"
    /\ scanners[last.args[2]].status = "maintenance"
    /\ scans[last.args[1]].status = "ordered"

\* the scans booked on a scanner
ScansOn(scanner_id) ==
    {id \in DOMAIN scans : scans[id].scanner_id = scanner_id /\ scans[id].status = "scheduled"}

\* C6: the capacity check and the booking are separate steps and the booking
\* checks no capacity: every request that found a scanner with a free slot gets
\* its scan booked on that scanner, whatever other requests booked in between.
C6_FoundMeansBooked ==
    \A k \in DOMAIN req :
        (req[k].pc \in {"notify", "done"} /\ req[k].found # NoScanner)
            => /\ req[k].result = "scheduled"
               /\ scans[req[k].scan_id].scanner_id = req[k].found
               /\ scans[req[k].scan_id].status = "scheduled"

\* C6 witness: both concurrent requests succeeded on the scanner that had one
\* free slot, which now holds more scans than its daily_capacity
C6_BothBookedOverCapacity ==
    /\ \A k \in DOMAIN req : req[k].pc = "done" /\ req[k].result = "scheduled" /\ req[k].found = 1
    /\ DOMAIN req = Tasks
    /\ Cardinality(ScansOn(1)) > scanners[1].daily_capacity

\* C7: update_scan_with_analysis on an existing scan in status ordered ends
\* without error, has committed urgency, score, reason and status validated,
\* and returns a summary that reports status validated.
C7_ApplyAnalysisCompletes ==
    [][/\ Step("update_scan_with_analysis")
       /\ last'.args[1] \in DOMAIN scans
       /\ scans[last'.args[1]].status = "ordered"
       => LET scan_id == last'.args[1]
              analysis_result == last'.args[2]
          IN  /\ scans'[scan_id].urgency_level = analysis_result.urgency_level
              /\ scans'[scan_id].appropriateness_score = analysis_result.appropriateness_score
              /\ scans'[scan_id].appropriateness_reason = analysis_result.appropriateness_reason
              /\ scans'[scan_id].status = "validated"
              /\ last'.result = "ok"
              /\ last'.ret.scan_id = scan_id
              /\ last'.ret.status = "validated"]_vars

\* C8: update_scan_with_analysis changes the status only from ordered to
\* validated; on a scan in any other status the status stays and the urgency,
\* score and reason are overwritten all the same; on a missing scan it fails
\* with NotFound and writes nothing.
C8_ApplyAnalysisWrites ==
    [][Step("update_scan_with_analysis")
       => LET scan_id == last'.args[1]
              analysis_result == last'.args[2]
          IN  IF scan_id \notin DOMAIN scans
              THEN /\ ErrorKind(last'.result) = "NotFound"
                   /\ UNCHANGED <<scans, scanners, patients, users, audit, notifs>>
              ELSE /\ scans'[scan_id].status =
                        (IF scans[scan_id].status = "ordered" THEN "validated"
                         ELSE scans[scan_id].status)
                   /\ scans'[scan_id].urgency_level = analysis_result.urgency_level
                   /\ scans'[scan_id].appropriateness_score = analysis_result.appropriateness_score
                   /\ scans'[scan_id].appropriateness_reason = analysis_result.appropriateness_reason
                   /\ \A o \in DOMAIN scans \ {scan_id} : scans'[o] = scans[o]]_vars

\* C8 witness: the analysis was applied to a reported scan, which is still
\* reported and carries the new urgency
C8_OverwrittenNotRevalidated ==
    /\ last.op = "update_scan_with_analysis"
    /\ last.args[1] \in DOMAIN scans
    /\ scans[last.args[1]].status = "reported"
    /\ scans[last.args[1]].urgency_level = "immediate"
    /\ last.args[2].urgency_level = "immediate"

\* C9: a successful status patch to in_progress sets started_time, to completed
\* sets completed_time, to reported sets reported_time, and leaves the other
\* two markers as they were; a patch to any other status changes none of them.
C9_PatchStampsOneMarker ==
    [][(Step("patch_scan_status") /\ last'.result = 200)
       => LET scan_id == last'.args[1]
              new_status == last'.args[2]
              before == scans[scan_id]
              after == scans'[scan_id]
          IN  /\ after.status = new_status
              /\ after.started_time =
                    (IF new_status = "in_progress" THEN now ELSE before.started_time)
              /\ after.completed_time =
                    (IF new_status = "completed" THEN now ELSE before.completed_time)
              /\ after.reported_time =
                    (IF new_status = "reported" THEN now ELSE before.reported_time)]_vars

\* C9 witness: a patch to in_prep after a patch to completed: the scan has a
\* completed_time and no started_time and no reported_time
C9_OtherMarkersAbsent ==
    /\ last.op = "patch_scan_status"
    /\ last.result = 200
    /\ last.args[2] = "in_prep"
    /\ scans[last.args[1]].completed_time # NoTime
    /\ scans[last.args[1]].started_time = NoTime
    /\ scans[last.args[1]].reported_time = NoTime

\* C10: process_new_scan_order on a new order whose urgency is not immediate
\* books the scan on the scanner and at the time of the first suggestion of
\* get_optimal_schedule; without a suggestion the scan stays validated with no
\* scanner and "Awaiting scanner availability" is a pending action.
C10_BookedOnFirstSuggestion ==
    [][/\ Step("process_new_scan_order")
       /\ last'.result = "ok"
       /\ scans[last'.args[1]].status = "ordered"
       /\ last'.ret.clinical_analysis.urgency_level # "immediate"
       => LET scan_id == last'.args[1]
              suggestions == last'.ret.suggestions
              pending == last'.ret.workflow_state.pending_actions
          IN  IF suggestions # <<>>
              THEN /\ scans'[scan_id].status = "scheduled"
                   /\ scans'[scan_id].scanner_id = suggestions[1].scanner_id
                   /\ scans'[scan_id].scheduled_time = suggestions[1].scheduled_time
              ELSE /\ scans'[scan_id].status = "validated"
                   /\ scans'[scan_id].scanner_id = NoScanner
                   /\ \E i \in DOMAIN pending : pending[i] = "Awaiting scanner availability"]_vars

\* the steps process_new_scan_order reports as completed
CompletedSteps(ret) ==
    {ret.workflow_state.completed_steps[i] : i \in DOMAIN ret.workflow_state.completed_steps}

\* the audit entries a step appended
Appended == SubSeq(audit', Len(audit) + 1, Len(audit'))

\* C11: process_new_scan_order on a new order analysed as immediate: with a
\* scanner that fits a 15-minute scan the scan ends scheduled on such a scanner
\* and "scheduling" is a completed step; with none, exactly one escalation
\* entry of actor "system" is appended, the scan stays validated without
\* scanner, "scheduling" is no completed step, and the workflow goes on through
\* the patient notification and returns with current step "completed".
C11_ImmediateBookedOrEscalated ==
    [][/\ Step("process_new_scan_order")
       /\ last'.args[1] \in DOMAIN scans
       /\ scans[last'.args[1]].status = "ordered"
       /\ scans[last'.args[1]].patient_id \in DOMAIN patients
       /\ analyze_ct_indication(scans[last'.args[1]].ct_indication,
                                scans[last'.args[1]].clinical_history,
                                scans[last'.args[1]].symptoms).urgency_level = "immediate"
       => LET scan_id == last'.args[1]
              fitting == FindCandidates(scanners, now, 15, "any")
              escalations == {i \in DOMAIN Appended : Appended[i].action = "escalation"}
          IN  /\ Len(audit') >= Len(audit)
              /\ IF fitting # {}
                 THEN /\ last'.result = "ok"
                      /\ scans'[scan_id].status = "scheduled"
                      /\ scans'[scan_id].scanner_id \in fitting
                      /\ "scheduling" \in CompletedSteps(last'.ret)
                      /\ escalations = {}
                 ELSE /\ Cardinality(escalations) = 1
                      /\ \A i \in escalations :
                            Appended[i].user_id = SystemActor /\ Appended[i].entity_id = scan_id
                      /\ scans'[scan_id].status = "validated"
                      /\ scans'[scan_id].scanner_id = NoScanner
                      /\ last'.result = "ok"
                      /\ "scheduling" \notin CompletedSteps(last'.ret)
                      /\ "patient_notification" \in CompletedSteps(last'.ret)
                      /\ last'.ret.workflow_state.current_step = "completed"]_vars

\* C12: update_scan_status of the Orchestration Agent on an existing scan sets
\* the status and has exactly these effects: in_prep -> patient in_prep;
\* in_progress -> started_time, patient in_scan; completed -> completed_time,
\* patient post_scan; reported -> reported_time, patient completed and one
\* result_ready in-app notification iff the scan has a final report; any other
\* status leaves patient, time markers and notifications alone.
C12_StatusSideEffects ==
    [][(Step("update_scan_status") /\ last'.result = "ok")
       => LET scan_id == last'.args[1]
              new_status == last'.args[2]
              before == scans[scan_id]
              after == scans'[scan_id]
              patient_id == before.patient_id
              expected == CASE new_status = "in_prep" -> "in_prep"
                            [] new_status = "in_progress" -> "in_scan"
                            [] new_status = "completed" -> "post_scan"
                            [] new_status = "reported" -> "completed"
                            [] OTHER -> patients[patient_id].status
          IN  /\ after = [before EXCEPT
                    !.status = new_status,
                    !.started_time = IF new_status = "in_progress" THEN now ELSE @,
                    !.completed_time = IF new_status = "completed" THEN now ELSE @,
                    !.reported_time = IF new_status = "reported" THEN now ELSE @]
              /\ \A o \in DOMAIN scans \ {scan_id} : scans'[o] = scans[o]
              /\ patients' = [patients EXCEPT ![patient_id].status = expected]
              /\ IF new_status = "reported" /\ before.final_report
                 THEN /\ Len(notifs') = Len(notifs) + 1
                      /\ SubSeq(notifs', 1, Len(notifs)) = notifs
                      /\ notifs'[Len(notifs')].category = "result_ready"
                      /\ notifs'[Len(notifs')].notification_type = "in_app"
                      /\ notifs'[Len(notifs')].patient_id = patient_id
                 ELSE notifs' = notifs]_vars

\* C12 witness: a scan with a final report was set to reported: its patient is
\* completed and holds a result_ready notification
C12_ReportedNotified ==
    /\ last.op = "update_scan_status"
    /\ last.result = "ok"
    /\ last.args[2] = "reported"
    /\ scans[last.args[1]].final_report
    /\ scans[last.args[1]].reported_time = now
    /\ patients[scans[last.args[1]].patient_id].status = "completed"
    /\ Len(notifs) = 1
    /\ notifs[1].category = "result_ready"

\* C13: a successful update_scan_status appends exactly one "update" audit
\* entry for the scan, naming the old and the new status; one that fails with
\* NotFound appends none; no step of any operation changes or removes an
\* earlier entry.
C13_AuditAppendOnly ==
    [][/\ Len(audit') >= Len(audit)
       /\ SubSeq(audit', 1, Len(audit)) = audit
       /\ Step("update_scan_status")
            => IF last'.result = "ok"
               THEN /\ Len(audit') = Len(audit) + 1
                    /\ audit'[Len(audit')].action = "update"
                    /\ audit'[Len(audit')].entity_id = last'.args[1]
                    /\ audit'[Len(audit')].description =
                          <<"Scan status changed", scans[last'.args[1]].status, last'.args[2]>>
               ELSE /\ ErrorKind(last'.result) = "NotFound"
                    /\ audit' = audit]_vars

\* C13 witness: a status update after an earlier operation: the log holds the
\* earlier entries and, last, the entry of the update
C13_UpdateLogged ==
    /\ last.op = "update_scan_status"
    /\ last.result = "ok"
    /\ Len(audit) >= 3
    /\ audit[1].action = "create"
    /\ audit[Len(audit)].description = <<"Scan status changed", "scheduled", "in_prep">>

\* C14: a token is issued only to a user who is active at that moment.  Login
\* by an inactive user with the right password is refused with 403, login with
\* an unknown username or a wrong password with 401, and neither stamps
\* last_login; refresh by an inactive or absent user is refused with 401; an
\* active user's login and refresh succeed, whatever happened to the account
\* before.
C14_NoTokenForInactive ==
    [][/\ \A tk \in tokens' \ tokens :
             tk.claims.sub \in DOMAIN users /\ users[tk.claims.sub].is_active
       /\ Step("login") =>
             LET username == last'.args[1]
                 password == last'.args[2]
                 known == {id \in DOMAIN users :
                              /\ users[id].username = username
                              /\ users[id].hashed_password = <<"bcrypt", password>>}
                 active == {id \in known : users[id].is_active}
             IN  /\ (last'.result = 401) <=> (known = {})
                 /\ (last'.result = 403) <=> (known # {} /\ active = {})
                 /\ (last'.result = 200) <=> (active # {})
                 /\ last'.result # 200 => users' = users /\ tokens' = tokens
                 /\ last'.result = 200 =>
                       /\ last'.ret \in active
                       /\ users' = [users EXCEPT ![last'.ret].last_login = now]
                       /\ \E tk \in tokens' :
                             tk.claims.sub = last'.ret /\ tk.claims.exp >= Seconds(now)
       /\ Step("refresh") =>
             LET cred == last'.args[1]
                 sub == cred.claims.sub
                 usable == /\ cred.secret = ServerSecret
                           /\ cred.claims.exp >= Seconds(now)
                           /\ "sub" \in DOMAIN cred.claims
                 granted == usable /\ sub \in DOMAIN users /\ users[sub].is_active
             IN  /\ last'.result = (IF granted THEN 200 ELSE 401)
                 /\ granted => \E tk \in tokens' :
                                  tk.claims.sub = sub /\ tk.claims.exp >= Seconds(now)
                 /\ ~granted => tokens' = tokens
                 /\ users' = users]_vars

\* alice, whose account starts disabled, has logged in: she was re-activated first
C14_LoginAfterReactivation ==
    /\ last.op = "login"
    /\ last.result = 200
    /\ last.ret = 1
    /\ users[1].last_login = now

\* the tables and collections a request can persist to
Persisted == <<scans, scanners, patients, users, audit, notifs, tokens, faqs>>

\* what makes credentials unusable, read off the token itself
Unusable(cred, t) ==
    \/ cred = NoCredentials
    \/ cred.secret # ServerSecret
    \/ cred.claims.exp < Seconds(t)
    \/ "sub" \notin DOMAIN cred.claims

CredentialOps ==
    {"create_scan", "delete_patient", "create_patient", "refresh", "activate_user",
     "deactivate_user"}

\* C15: get_current_user_id answers 401 when there are no credentials, when the
\* token does not decode (forged or expired) and when its claims lack "sub",
\* and returns the subject otherwise; a bearer-protected handler calls it
\* first, so a request it rejects ends with 401 and leaves every table as it
\* was, and a request it accepts acts for the token's subject.
C15_RejectedLeavesStateUnchanged ==
    /\ [](\A cred \in BearerTokens \cup {NoCredentials} :
             get_current_user_id(cred, now) =
                 IF Unusable(cred, now) THEN [code |-> 401, user_id |-> 0]
                 ELSE [code |-> 200, user_id |-> cred.claims.sub])
    /\ [][/\ \A op \in CredentialOps :
               Step(op) /\ Unusable(last'.args[1], now)
                   => last'.result = 401 /\ UNCHANGED Persisted
          /\ \A op \in {"create_user", "create_scanner", "patch_scan_status"} :
               Step(op) /\ last'.result = 401 => UNCHANGED Persisted
          /\ \A op \in CredentialOps \ {"refresh"} :
               Step(op) /\ ~Unusable(last'.args[1], now) => last'.result # 401
          /\ Step("create_scan") /\ last'.result = 201
                   => last'.ret.ordering_physician_id = last'.args[1].claims.sub]_vars

\* a scan order sent with a token that has expired was turned away
C15_ExpiredTokenRejected ==
    /\ last.op = "create_scan"
    /\ last.result = 401
    /\ last.args[1].secret = ServerSecret
    /\ last.args[1].claims.exp < Seconds(last.at)
    /\ last.args[2] \in DOMAIN patients

\* C16: decoding a token right after issuing it returns every supplied claim
\* unchanged plus "exp", the whole second of issue time + the supplied
\* lifetime (the configured default when none is supplied), which lies in
\* the future; decoding an expired token or one signed with another secret
\* returns None and raises nothing.
C16_TokenRoundTrip ==
    [][Step("decode_access_token") =>
          LET token == last'.args[1]
              payload == last'.ret
              expired == token.claims.exp < Seconds(now)
          IN  /\ last'.result = "ok"
              /\ (token.secret # ServerSecret \/ expired) => payload = <<>>
              /\ (token.secret = ServerSecret /\ ~expired) => payload = token.claims
              /\ (last.op = "create_access_token" /\ last.at = now /\ token = last.ret) =>
                    LET data == last.args[1]
                        expires_delta == last.args[2]
                        lifetime == IF expires_delta = NoDelta
                                    THEN (JWT_EXPIRATION_MINUTES \div 15) * Min15
                                    ELSE expires_delta
                    IN  /\ DOMAIN payload = DOMAIN data \cup {"exp"}
                        /\ \A k \in DOMAIN data : payload[k] = data[k]
                        /\ payload.exp = (now + lifetime) \div MicroSteps
                        /\ payload.exp * MicroSteps > now]_vars

\* a token issued with a lifetime of one second was decoded at once
C16_DecodedAtOnce ==
    /\ last.op = "decode_access_token"
    /\ last.ret # <<>>
    /\ last.ret.exp = Seconds(last.at + MicroSteps)
    /\ "sub" \in DOMAIN last.ret
    /\ ops = 2

\* the rooms a socket is registered in, and how often in one room
RoomsOf(websocket) ==
    {room \in DOMAIN active_connections :
        \E i \in DOMAIN active_connections[room] : active_connections[room][i] = websocket}

Times(websocket, room) ==
    Cardinality({i \in DOMAIN active_connections[room] :
                    active_connections[room][i] = websocket})

\* C17: a connection the endpoint is serving is registered exactly once, in the
\* room its most recent subscribe named (its initial room if it never
\* subscribed), and in no other room; once the client has disconnected or the
\* handler has terminated it is registered in no room.
C17_RegisteredInSubscribedRoom ==
    \A websocket \in DOMAIN handlers :
        IF handlers[websocket].pc = "serving"
        THEN /\ RoomsOf(websocket) = {handlers[websocket].asked}
             /\ Times(websocket, handlers[websocket].asked) = 1
        ELSE RoomsOf(websocket) = {}

\* C18: no room of the registry maps to an empty list, whatever connects,
\* disconnects and broadcasts ran; disconnect takes one registration of the
\* socket out of the named room, drops the room with its last connection and
\* leaves every other room alone; for a socket that is not in the room, or a
\* room that does not exist, it leaves the registry unchanged.
C18_NoEmptyRoom ==
    /\ [](\A room \in DOMAIN active_connections : active_connections[room] # <<>>)
    /\ [][Step("disconnect") =>
            LET websocket == last'.args[1]
                room == last'.args[2]
                before == active_connections
                after == active_connections'
                there == room \in DOMAIN before
                         /\ \E i \in DOMAIN before[room] : before[room][i] = websocket
            IN  /\ \A r \in DOMAIN before \ {room} : r \in DOMAIN after /\ after[r] = before[r]
                /\ DOMAIN after \subseteq DOMAIN before
                /\ ~there => after = before
                /\ there /\ Len(before[room]) = 1 => room \notin DOMAIN after
                /\ there /\ Len(before[room]) > 1 =>
                      /\ room \in DOMAIN after
                      /\ Len(after[room]) = Len(before[room]) - 1
                      /\ \A s \in Sockets \ {websocket} :
                            SelectSeq(after[room], LAMBDA c : c = s)
                                = SelectSeq(before[room], LAMBDA c : c = s)]_vars

\* the last connection of one room was disconnected while another room has some
C18_LastConnectionRemoved ==
    /\ last.op = "disconnect"
    /\ last.result = "removed"
    /\ last.args[2] \notin DOMAIN active_connections
    /\ active_connections # NoRows

\* C19: update_patient changes only the fields the request supplies and
\* updated_at of the addressed patient; every other field of that patient,
\* every other patient and every other table stay as they were; an update of
\* an absent patient id answers 404 and changes nothing.
C19_UpdateChangesOnlySupplied ==
    [][Step("update_patient") /\ ~Unusable(last'.args[1], now) =>
          LET patient_id == last'.args[2]
              update_data == last'.args[3]
          IN  /\ UNCHANGED <<scans, scanners, users, audit, notifs, tokens, faqs>>
              /\ DOMAIN patients' = DOMAIN patients
              /\ \A other \in DOMAIN patients \ {patient_id} : patients'[other] = patients[other]
              /\ patient_id \notin DOMAIN patients =>
                    last'.result = 404 /\ patients' = patients
              /\ patient_id \in DOMAIN patients =>
                    /\ last'.result = 200
                    /\ DOMAIN patients'[patient_id] = DOMAIN patients[patient_id]
                    /\ \A f \in DOMAIN update_data : patients'[patient_id][f] = update_data[f]
                    /\ patients'[patient_id].updated_at = now
                    /\ \A f \in DOMAIN patients[patient_id] \ (DOMAIN update_data \cup {"updated_at"}) :
                          patients'[patient_id][f] = patients[patient_id][f]]_vars

\* a request with only a phone value went through for patient 1, whose status,
\* anxiety level and consent are not the defaults
C19_PhoneOnlyUpdated ==
    /\ last.op = "update_patient"
    /\ last.result = 200
    /\ last.args[2] = 1
    /\ DOMAIN last.args[3] = {"phone"}
    /\ patients[1].phone = "012-555"
    /\ patients[1].status = "in_scan"
    /\ patients[1].anxiety_level = "mild"
    /\ patients[1].consent_given
    /\ patients[1].updated_at = last.at
    /\ patients[1].registered_at # last.at

\* C20: a feedback call on an existing FAQ raises helpful_count by 1 when
\* helpful is true and not_helpful_count by 1 when it is false, and leaves the
\* other counter, view_count and every other FAQ as they were; feedback on an
\* absent FAQ answers 404 and changes nothing; no operation lowers a counter
\* of a FAQ it leaves in the table.
C20_FeedbackCountsOnce ==
    [][/\ Step("provide_feedback") =>
             LET faq_id == last'.args[1]
                 helpful == last'.args[2]
             IN  /\ UNCHANGED <<scans, scanners, patients, users, audit, notifs, tokens>>
                 /\ DOMAIN faqs' = DOMAIN faqs
                 /\ \A other \in DOMAIN faqs \ {faq_id} : faqs'[other] = faqs[other]
                 /\ faq_id \notin DOMAIN faqs => last'.result = 404 /\ faqs' = faqs
                 /\ faq_id \in DOMAIN faqs =>
                       /\ last'.result = 200
                       /\ faqs'[faq_id].helpful_count =
                             faqs[faq_id].helpful_count + (IF helpful THEN 1 ELSE 0)
                       /\ faqs'[faq_id].not_helpful_count =
                             faqs[faq_id].not_helpful_count + (IF helpful THEN 0 ELSE 1)
                       /\ faqs'[faq_id].view_count = faqs[faq_id].view_count
                       /\ faqs'[faq_id].category = faqs[faq_id].category
                       /\ faqs'[faq_id].is_active = faqs[faq_id].is_active
       /\ \A id \in DOMAIN faqs :
             \/ id \notin DOMAIN faqs' /\ Step("delete_faq") /\ last'.args[2] = id
             \/ /\ id \in DOMAIN faqs'
                /\ faqs'[id].helpful_count >= faqs[id].helpful_count
                /\ faqs'[id].not_helpful_count >= faqs[id].not_helpful_count]_vars

\* FAQ 1, which starts at 1 helpful and 0 not helpful, got two helpful calls
\* and then one that was not
C20_TwoHelpfulOneNot ==
    /\ ops = 3
    /\ last.op = "provide_feedback"
    /\ last.args = <<1, FALSE>>
    /\ 1 \in DOMAIN faqs
    /\ faqs[1].helpful_count = 3
    /\ faqs[1].not_helpful_count = 1
    /\ faqs[1].view_count = 2

UpperHexDigits ==
    {"0", "1", "2", "3", "4", "5", "6", "7", "8", "9", "A", "B", "C", "D", "E", "F"}

\* C21: a scan the create-scan route stores carries the number CT, the second
\* of its creation, and four upper-case hex digits; any two stored scans have
\* different numbers, and two with the same second differ in the hex suffix.
C21_ScanNumbersUnique ==
    /\ [](\A a, b \in DOMAIN scans :
             a # b =>
                /\ scans[a].scan_number # scans[b].scan_number
                /\ scans[a].scan_number.timestamp = scans[b].scan_number.timestamp
                      => scans[a].scan_number.suffix # scans[b].scan_number.suffix)
    /\ [][Step("create_scan") /\ last'.result = 201 =>
             LET number == scans'[last'.ret.id].scan_number
             IN  /\ last'.ret.id \notin DOMAIN scans
                 /\ number.prefix = "CT"
                 /\ number.timestamp = now \div MicroSteps
                 /\ Len(number.suffix) = 4
                 /\ \A i \in 1..4 : number.suffix[i] \in UpperHexDigits]_vars

\* two scans were created within the same second
C21_TwoInOneSecond ==
    /\ last.op = "create_scan"
    /\ last.result = 201
    /\ DOMAIN scans = {1, 2}
    /\ scans[1].scan_number.timestamp = scans[2].scan_number.timestamp

\* the text the analysis reads: the three fields lower-cased and joined by spaces
AnalysedText == CombinedText(last.args[1], last.args[2], last.args[3])

Contains(text, indicators) == \E k \in indicators : Occurs(k, text)

\* C22: the urgency is immediate when the text contains an immediate-tier
\* keyword (whatever else it contains), else urgent when it contains an
\* urgent-tier keyword, else routine.
C22_UrgencyTierOrdered ==
    last.op = "analyze_ct_indication" =>
        /\ Contains(AnalysedText, immediate_indicators) => last.ret.urgency_level = "immediate"
        /\ (~Contains(AnalysedText, immediate_indicators) /\ Contains(AnalysedText, urgent_indicators))
              => last.ret.urgency_level = "urgent"
        /\ (~Contains(AnalysedText, immediate_indicators) /\ ~Contains(AnalysedText, urgent_indicators))
              => last.ret.urgency_level = "routine"
        /\ ("stroke" \in WordSet(AnalysedText) /\ "trauma" \in WordSet(AnalysedText))
              => last.ret.urgency_level = "immediate"
        /\ AnalysedText = <<"confusion", "", "">> => last.ret.urgency_level = "urgent"

\* a text with stroke and trauma was classified immediate
C22_StrokeWithTrauma ==
    /\ last.op = "analyze_ct_indication"
    /\ "stroke" \in WordSet(AnalysedText)
    /\ "trauma" \in WordSet(AnalysedText)
    /\ last.ret.urgency_level = "immediate"

MatchedScores ==
    {APPROPRIATENESS_CRITERIA[i].score :
        i \in {j \in DOMAIN APPROPRIATENESS_CRITERIA :
                  Cardinality(APPROPRIATENESS_CRITERIA[j].words \cap WordSet(AnalysedText))
                      >= Min(2, Cardinality(APPROPRIATENESS_CRITERIA[j].words))}}

CategoryOf(score) ==
    CASE score \in 7..9 -> "very_high"
      [] score = 6 -> "high"
      [] score \in 4..5 -> "moderate"
      [] score \in 2..3 -> "low"
      [] OTHER -> "none"

\* C23: the category is that of the highest score among the matched criteria,
\* and it is very_low, with score 0 and no criterion named, exactly when no
\* criterion matches; "acute stroke symptoms with trauma" gives very_high, 9/9.
C23_BestMatchingCriterion ==
    last.op = "analyze_ct_indication" =>
        /\ MatchedScores # {} =>
              \E best \in MatchedScores :
                 /\ \A score \in MatchedScores : score <= best
                 /\ last.ret.appropriateness_score = CategoryOf(best)
                 /\ last.ret.appropriateness_reason[1] = best
                 /\ last.ret.appropriateness_reason[2] # 0
        /\ (last.ret.appropriateness_score = "very_low") = (MatchedScores = {})
        /\ MatchedScores = {} => last.ret.appropriateness_reason = <<0, 0>>
        /\ AnalysedText = <<"acute", "stroke", "symptoms", "with", "trauma", "", "">>
              => /\ last.ret.appropriateness_score = "very_high"
                 /\ last.ret.appropriateness_reason[1] = 9

\* a text that matches a low-scored criterion before a high-scored one
C23_SeveralCriteriaMatched ==
    /\ last.op = "analyze_ct_indication"
    /\ Cardinality(MatchedScores) >= 2
    /\ last.ret.appropriateness_reason[1] = 8
    /\ last.ret.appropriateness_reason[2] > 1

\* C24: the total is the sum of the three components; severity and
\* interpretation follow the total by the stated thresholds.
C24_GcsScoring ==
    last.op = "calculate_gcs_score" =>
        LET total == last.args[1] + last.args[2] + last.args[3]
            r == last.ret
        IN  /\ r.total_score = total
            /\ (r.severity = "mild") = (total >= 13)
            /\ (r.severity = "moderate") = (9 <= total /\ total <= 12)
            /\ (r.severity = "severe") = (total <= 8)
            /\ (r.interpretation = "Normal consciousness") = (total >= 15)
            /\ (r.interpretation = "Minor brain injury") = (total \in {13, 14})
            /\ (r.interpretation = "Moderate brain injury") = (9 <= total /\ total <= 12)
            /\ (r.interpretation = "Severe brain injury (coma)") = (total = 8)
            /\ (r.interpretation = "Critical - immediate intervention required") = (total < 8)
            /\ last.args = <<4, 5, 6>> =>
                  r.total_score = 15 /\ r.severity = "mild" /\ r.interpretation = "Normal consciousness"
            /\ last.args = <<1, 2, 4>> =>
                  /\ r.total_score = 7 /\ r.severity = "severe"
                  /\ r.interpretation = "Critical - immediate intervention required"

\* eye 1, verbal 2, motor 4 was scored 7, severe, critical
C24_CriticalScore ==
    /\ last.op = "calculate_gcs_score"
    /\ last.args = <<1, 2, 4>>
    /\ last.ret.total_score = 7
    /\ last.ret.interpretation = "Critical - immediate intervention required"

\* the scans a forecast made at the time and for the hours of the last call collects
Collected ==
    {id \in DOMAIN scans :
        /\ scans[id].status \in {"scheduled", "in_prep", "in_progress"}
        /\ scans[id].scheduled_time # NoTime
        /\ last.at <= scans[id].scheduled_time
        /\ scans[id].scheduled_time <= last.at + last.args[1] * Hour}

\* the clock hour, counted from the epoch, of the h-th emitted entry
EmittedHour(h) == (last.at + (h - 1) * Hour) \div Hour

\* C25: the demand of each emitted hour is the number of collected scans whose
\* scheduled time lies in that clock hour; the capacity is twice the number of
\* active scanners; the label is high above 0.8, normal above 0.5, else low.
C25_ForecastBuckets ==
    last.op = "forecast_capacity" =>
        \A h \in DOMAIN last.ret.hourly_forecast :
            LET entry == last.ret.hourly_forecast[h]
                inHour == {id \in Collected : scans[id].scheduled_time \div Hour = EmittedHour(h)}
                active == {id \in DOMAIN scanners : scanners[id].is_active}
            IN  /\ entry.demand = Cardinality(inHour)
                /\ entry.capacity = 2 * Cardinality(active)
                /\ (entry.status = "high") =
                      (active # {} /\ 10 * entry.demand > 8 * entry.capacity)
                /\ (entry.status = "normal") =
                      (active # {} /\ 10 * entry.demand > 5 * entry.capacity
                                  /\ 10 * entry.demand <= 8 * entry.capacity)
                /\ entry.status \in {"high", "normal", "low"}

\* three scans in one clock hour against two active scanners: that hour is
\* normal with demand 3, the other emitted hour has none
C25_ThreeInOneHour ==
    /\ last.op = "forecast_capacity"
    /\ \E h, g \in DOMAIN last.ret.hourly_forecast :
          /\ last.ret.hourly_forecast[h].demand = 3
          /\ last.ret.hourly_forecast[h].capacity = 4
          /\ last.ret.hourly_forecast[h].status = "normal"
          /\ last.ret.hourly_forecast[g].demand = 0

RECURSIVE SumDemand(_, _)
SumDemand(forecast, n) == IF n = 0 THEN 0 ELSE forecast[n].demand + SumDemand(forecast, n - 1)

\* C29: the demands of the hourly forecast add up to the number of scans the
\* forecast collected.
C29_ForecastConservesDemand ==
    last.op = "forecast_capacity" =>
        SumDemand(last.ret.hourly_forecast, Len(last.ret.hourly_forecast)) = Cardinality(Collected)

\* the connections registered in the room from the start of the broadcast to its end
StayedRegistered == req[1].present \ req[1].left

\* C26: when a broadcast completes, every connection that was registered in
\* the room throughout has been sent the message exactly once; the
\* connections whose send failed are no longer in the room, and those whose
\* send succeeded and that did not disconnect are still registered.
C26_BroadcastReachesAll ==
    [][(Broadcasting /\ req'[1].pc = "done") =>
          /\ \A c \in StayedRegistered : req[1].sends[c] = 1
          /\ \A c \in BroadcastSockets :
                (req[1].sends[c] > 0 /\ c \in req[1].broken)
                   => ~InRoom(active_connections', c, req[1].room)
          /\ \A c \in StayedRegistered :
                (req[1].sends[c] > 0 /\ c \notin req[1].broken)
                   => InRoom(active_connections', c, req[1].room)]_vars

\* the scans that occupy a scanner
Occupying(scanner_id) ==
    {id \in DOMAIN scans :
        /\ scans[id].scanner_id = scanner_id
        /\ scans[id].status \in {"scheduled", "in_prep", "in_progress"}
        /\ scans[id].scheduled_time # NoTime}

\* C27: no two distinct scans in status scheduled, in_prep or in_progress on
\* the same scanner have overlapping intervals
\* [scheduled_time, scheduled_time + avg_scan_duration_minutes).
C27_NoDoubleBooking ==
    \A scanner_id \in DOMAIN scanners :
        \A a, b \in Occupying(scanner_id) :
            a # b =>
                LET duration == Minutes(scanners[scanner_id].avg_scan_duration_minutes)
                IN  \/ scans[a].scheduled_time + duration <= scans[b].scheduled_time
                    \/ scans[b].scheduled_time + duration <= scans[a].scheduled_time

\* C28: process_new_scan_order on a scan id that does not exist fails with
\* NotFound and commits nothing: the audit log, the notifications, the scans,
\* the scanners and the patients are as before the call.
C28_MissingScanLeavesNoTrace ==
    [][(Step("process_new_scan_order") /\ last'.args[1] \notin DOMAIN scans)
          => /\ ErrorKind(last'.result) = "NotFound"
             /\ audit' = audit
             /\ notifs' = notifs
             /\ scans' = scans
             /\ scanners' = scanners
             /\ patients' = patients]_vars

CompletingOps == {"update_scan_status", "patch_scan_status", "update_scan"}

====
